---- MODULE Spec2Model ----
(***************************************************************************)
(* Model of the numerical-analysis kernel of src/physics.py (Python 2):    *)
(* complex2, exp2, dfft, disc_fourier, disc_inv_fourier, disc_convolve,    *)
(* runge_kutta4, num_bisection, num_linear, num_newton, num_secant.        *)
(*                                                                         *)
(* Numbers.  A Python number is a tuple <<a, b, c, d, q, f>> standing for  *)
(* the real (a + b*sqrt2 + c*sqrt3 + d*sqrt6) / q, with q > 0 and          *)
(* gcd(a,b,c,d,q) = 1; f = 0 marks a Python int (then b = c = d = 0 and    *)
(* q = 1), f = 1 a Python float.  Floats are modelled as exact reals of    *)
(* the field Q(sqrt2, sqrt3): rounding is not modelled.  The field holds   *)
(* sqrt(N) and cos/sin(2*pi*m/N) for every N that divides 24, which is     *)
(* what the transforms need for the lengths 1, 2, 3, 4, 6, 8, 12.          *)
(* Angles are kept as rational multiples of pi (math.pi is the unit).      *)
(***************************************************************************)
EXTENDS Integers, Sequences, FiniteSets, TLC

(***************************************************************************)
(* Integer helpers                                                         *)
(***************************************************************************)
Abs(n) == IF n < 0 THEN -n ELSE n

RECURSIVE GCD(_, _)
GCD(m, n) == IF n = 0 THEN m ELSE GCD(n, m % n)

\* Python 2 int / int: floor division (divisor non-zero)
FloorDiv(m, n) == IF n > 0 THEN m \div n ELSE (-m) \div (-n)

(***************************************************************************)
(* Python numbers                                                          *)
(***************************************************************************)
\* gcd of the four numerators of a number
Content(x) == GCD(GCD(Abs(x[1]), Abs(x[2])), GCD(Abs(x[3]), Abs(x[4])))

\* the tuple for (a + b*sqrt2 + c*sqrt3 + d*sqrt6)/q after dividing by g
NormBy(a, b, c, d, q, fl, g) ==
    IF q < 0
    THEN <<(-a) \div g, (-b) \div g, (-c) \div g, (-d) \div g, (-q) \div g, fl>>
    ELSE <<a \div g, b \div g, c \div g, d \div g, q \div g, fl>>

\* lowest terms, positive denominator; fl is the int/float mark
Norm(a, b, c, d, q, fl) ==
    IF q = 1 THEN <<a, b, c, d, 1, fl>>
    ELSE NormBy(a, b, c, d, q, fl,
                GCD(GCD(GCD(Abs(a), Abs(b)), GCD(Abs(c), Abs(d))), Abs(q)))

PyInt(n)      == <<n, 0, 0, 0, 1, 0>>
PyFloat(n, d) == Norm(n, 0, 0, 0, d, 1)

IsInt(x)      == x[6] = 0
IsRational(x) == x[2] = 0 /\ x[3] = 0 /\ x[4] = 0
IsZero(x)     == x[1] = 0 /\ x[2] = 0 /\ x[3] = 0 /\ x[4] = 0
\* Python ==, which compares an int and a float by value
NumEq(x, y)   == \A j \in 1..5 : x[j] = y[j]
FloatMark(x, y) == IF x[6] = 0 /\ y[6] = 0 THEN 0 ELSE 1

NumNeg(x) == <<-x[1], -x[2], -x[3], -x[4], x[5], x[6]>>

\* x + y over the common denominator x[5] * y[5] / g, g = gcd(x[5], y[5])
AddBy(x, y, g) ==
    Norm(x[1] * (y[5] \div g) + y[1] * (x[5] \div g),
         x[2] * (y[5] \div g) + y[2] * (x[5] \div g),
         x[3] * (y[5] \div g) + y[3] * (x[5] \div g),
         x[4] * (y[5] \div g) + y[4] * (x[5] \div g),
         x[5] * (y[5] \div g), FloatMark(x, y))

NumAdd(x, y) ==
    IF x[5] = 1 /\ y[5] = 1
    THEN <<x[1] + y[1], x[2] + y[2], x[3] + y[3], x[4] + y[4], 1, FloatMark(x, y)>>
    ELSE AddBy(x, y, GCD(x[5], y[5]))

NumSub(x, y) == NumAdd(x, NumNeg(y))

\* product in Q(sqrt2, sqrt3) of x and y, after the numerators of x were
\* divided by gx (a factor of y[5]) and those of y by gy (a factor of x[5])
MulBy(x, y, gx, gy) ==
    Norm((x[1] \div gx) * (y[1] \div gy) + 2 * (x[2] \div gx) * (y[2] \div gy)
            + 3 * (x[3] \div gx) * (y[3] \div gy) + 6 * (x[4] \div gx) * (y[4] \div gy),
         (x[1] \div gx) * (y[2] \div gy) + (x[2] \div gx) * (y[1] \div gy)
            + 3 * ((x[3] \div gx) * (y[4] \div gy) + (x[4] \div gx) * (y[3] \div gy)),
         (x[1] \div gx) * (y[3] \div gy) + (x[3] \div gx) * (y[1] \div gy)
            + 2 * ((x[2] \div gx) * (y[4] \div gy) + (x[4] \div gx) * (y[2] \div gy)),
         (x[1] \div gx) * (y[4] \div gy) + (x[4] \div gx) * (y[1] \div gy)
            + (x[2] \div gx) * (y[3] \div gy) + (x[3] \div gx) * (y[2] \div gy),
         (x[5] \div gy) * (y[5] \div gx), FloatMark(x, y))

\* x * y; common factors are cancelled before multiplying
NumMul(x, y) ==
    IF IsZero(x) \/ IsZero(y) THEN <<0, 0, 0, 0, 1, FloatMark(x, y)>>
    ELSE MulBy(x, y, IF y[5] = 1 THEN 1 ELSE GCD(Content(x), y[5]),
                     IF x[5] = 1 THEN 1 ELSE GCD(Content(y), x[5]))

\* 1/y for a divisor y # 0 with a single non-zero numerator, which is what
\* the program divides by: a rational a/q, or math.sqrt of an int
NumInv(y) ==
    IF y[1] # 0 THEN Norm(y[5], 0, 0, 0, y[1], 1)
    ELSE IF y[2] # 0 THEN Norm(0, y[5], 0, 0, 2 * y[2], 1)
    ELSE IF y[3] # 0 THEN Norm(0, 0, y[5], 0, 3 * y[3], 1)
    ELSE Norm(0, 0, 0, y[5], 6 * y[4], 1)

\* Python 2 x / y for y # 0: floor division of two ints, true division else
NumDiv(x, y) ==
    IF IsInt(x) /\ IsInt(y) THEN PyInt(FloorDiv(x[1], y[1]))
    ELSE NumMul(x, NumInv(y))

\* sign of a rational number
Sign(x) == IF x[1] > 0 THEN 1 ELSE IF x[1] < 0 THEN -1 ELSE 0
NumLe(x, y) == Sign(NumSub(x, y)) <= 0
NumLt(x, y) == Sign(NumSub(x, y)) < 0

\* math.sqrt(n) for a positive int n of the form s*s*f, f in {1, 2, 3, 6}
SqrtInt(n) ==
    LET p == CHOOSE p \in (1..n) \X {1, 2, 3, 6} : p[1] * p[1] * p[2] = n
    IN  <<IF p[2] = 1 THEN p[1] ELSE 0, IF p[2] = 2 THEN p[1] ELSE 0,
          IF p[2] = 3 THEN p[1] ELSE 0, IF p[2] = 6 THEN p[1] ELSE 0, 1, 1>>

\* math.cos(m*pi/12) for 0 <= m <= 12
CosTable ==
    <<  <<1, 0, 0, 0, 1, 1>>,  <<0, 1, 0, 1, 4, 1>>,  <<0, 0, 1, 0, 2, 1>>,
        <<0, 1, 0, 0, 2, 1>>,  <<1, 0, 0, 0, 2, 1>>,  <<0, -1, 0, 1, 4, 1>>,
        <<0, 0, 0, 0, 1, 1>>,  <<0, 1, 0, -1, 4, 1>>, <<-1, 0, 0, 0, 2, 1>>,
        <<0, -1, 0, 0, 2, 1>>, <<0, 0, -1, 0, 2, 1>>, <<0, -1, 0, -1, 4, 1>>,
        <<-1, 0, 0, 0, 1, 1>> >>

\* math.cos(t) and math.sin(t) for t = (n/d)*pi, a multiple of pi/12
CosPi(t) ==
    LET m == ((t[1] * (12 \div t[5])) % 24)
    IN  CosTable[(IF m <= 12 THEN m ELSE 24 - m) + 1]
SinPi(t) ==
    LET m == ((t[1] * (12 \div t[5]) + 18) % 24)
    IN  CosTable[(IF m <= 12 THEN m ELSE 24 - m) + 1]

(***************************************************************************)
(* Values: a Python number or a complex2 object.  cx is isinstance(v,      *)
(* complex2); a plain number v is carried in re, with im = 0.              *)
(***************************************************************************)
Number(v)        == [cx |-> FALSE, re |-> v, im |-> PyInt(0)]
complex2(re, im) == [cx |-> TRUE, re |-> re, im |-> im]

\* outcome of an operation: a returned value or a raised error
Return(v)  == [raised |-> "", value |-> v]
Raise(e)   == [raised |-> e, value |-> <<>>]

\* same numeric value (an int, a float and a complex2 with im = 0 may agree)
ValEq(u, v) == NumEq(u.re, v.re) /\ NumEq(u.im, v.im)
SeqValEq(s, t) == Len(s) = Len(t) /\ \A k \in 1..Len(s) : ValEq(s[k], t[k])

\* variant: only the real field is tested
complex2_mag_is_zero_re_only(self) == IsZero(self.re)

complex2_mag_is_zero(self) ==
    IsZero(NumAdd(NumMul(self.re, self.re), NumMul(self.im, self.im)))

complex2_add(self, other) ==
    IF other.cx THEN complex2(NumAdd(self.re, other.re), NumAdd(self.im, other.im))
    ELSE complex2(NumAdd(self.re, other.re), self.im)

\* result += other: the fields of self after the in-place addition
complex2_iadd(self, other) ==
    IF other.cx THEN complex2(NumAdd(self.re, other.re), NumAdd(self.im, other.im))
    ELSE complex2(NumAdd(self.re, other.re), self.im)

complex2_sub(self, other) ==
    IF other.cx THEN complex2(NumSub(self.re, other.re), NumSub(self.im, other.im))
    ELSE complex2(NumSub(self.re, other.re), self.im)

\* variant: the product with the conjugate of other
complex2_mul_conjugate(self, other) ==
    IF other.cx
    THEN complex2(NumAdd(NumMul(other.re, self.re), NumMul(other.im, self.im)),
                  NumSub(NumMul(other.re, self.im), NumMul(other.im, self.re)))
    ELSE complex2(NumMul(other.re, self.re), NumMul(other.re, self.im))

complex2_mul(self, other) ==
    IF other.cx
    THEN complex2(NumSub(NumMul(other.re, self.re), NumMul(other.im, self.im)),
                  NumAdd(NumMul(other.re, self.im), NumMul(other.im, self.re)))
    ELSE complex2(NumMul(other.re, self.re), NumMul(other.re, self.im))

complex2_rmul(self, other) ==
    complex2(NumMul(other.re, self.re), NumMul(other.re, self.im))

\* lines 636-638: the quotient by a complex2, den = other.re**2 + other.im**2
complex2_quotient(self, other, den) ==
    complex2(NumDiv(NumAdd(NumMul(self.re, other.re), NumMul(self.im, other.im)), den),
             NumDiv(NumSub(NumMul(self.im, other.re), NumMul(self.re, other.im)), den))

\* self / other
complex2_div(self, other) ==
    IF ~other.cx
    THEN IF IsZero(other.re)
         THEN Raise("Cannot divide by zero")
         ELSE Return(complex2(NumDiv(self.re, other.re), NumDiv(self.im, other.re)))
    ELSE IF complex2_mag_is_zero(other)
         THEN Raise("Cannot divide by zero")
         ELSE Return(complex2_quotient(self, other,
                 NumAdd(NumMul(other.re, other.re), NumMul(other.im, other.im))))

\* what self /= other leaves: the value the name is bound to afterwards
\* (value) and the fields of the object self afterwards (self)
Bound(raised, value, self) == [raised |-> raised, value |-> value, self |-> self]

\* self /= other
complex2_idiv(self, other) ==
    IF ~other.cx
    THEN IF IsZero(other.re)
         THEN Bound("Cannot divide by zero", <<>>, self)
         ELSE Bound("", complex2(NumDiv(self.re, other.re), NumDiv(self.im, other.re)),
                        complex2(NumDiv(self.re, other.re), NumDiv(self.im, other.re)))
    ELSE IF complex2_mag_is_zero(other)
         THEN Bound("Cannot divide by zero", <<>>, self)
         ELSE Bound("", complex2_quotient(self, other,
                           NumAdd(NumMul(other.re, other.re), NumMul(other.im, other.im))),
                    self)

\* Python's x * y where at least one operand is a complex2
Mul(x, y) == IF x.cx THEN complex2_mul(x, y) ELSE complex2_rmul(y, x)

\* math.pi, in units of pi: only exp2's cos and sin consume such values
Pi == PyFloat(1, 1)
\* math.exp(r), needed at r = 0 only
MathExp(r) == CASE IsZero(r) -> PyFloat(1, 1)

exp2(x) ==
    IF x.cx
    THEN complex2_rmul(complex2(CosPi(x.im), SinPi(x.im)), Number(MathExp(x.re)))
    ELSE complex2(MathExp(x.re), PyInt(0))

imag_unit == complex2(PyInt(0), PyInt(1))

(***************************************************************************)
(* dfft(x, s, inverse): recursive radix-2 transform                        *)
(***************************************************************************)
Evens(x) == [k \in 1..((Len(x) + 1) \div 2) |-> x[2 * k - 1]]
Odds(x)  == [k \in 1..(Len(x) \div 2) |-> x[2 * k]]

\* the argument of exp2 in T[k]: -2*inv*i*math.pi*k/N
TwiddleAngle(inv, k, N) ==
    complex2_div(
        complex2_mul(
            complex2_mul(complex2_rmul(imag_unit, Number(PyInt(-2 * inv))), Number(Pi)),
            Number(PyInt(k))),
        Number(PyInt(N))).value

\* T[k] of dfft for the 0-based index k
Twiddle(inv, k, N, odd) ==
    complex2_mul(complex2_rmul(exp2(TwiddleAngle(inv, k, N)), Number(PyInt(inv))),
                 odd[k + 1])

\* lines 731-732: even[k] + T[k] for the first half, even[k] - T[k] after it
dfft_butterfly(even, T, h) ==
    [k \in 1..(2 * h) |->
        IF k <= h THEN complex2_add(even[k], T[k])
        ELSE complex2_sub(even[k - h], T[k - h])]

\* variant: the result is normalised at every level of the recursion
dfft_normalise_every_level(result, N, s) ==
    [k \in 1..Len(result) |-> complex2_div(result[k], Number(SqrtInt(N))).value]

\* variant: every level of the recursion divides its result by sqrt(2)
dfft_normalise_per_level(result, N, s) ==
    [k \in 1..Len(result) |-> complex2_div(result[k], Number(SqrtInt(2))).value]

\* lines 736-737: the result is normalised at the outermost call, s = 1
dfft_normalise(result, N, s) ==
    IF s = 1
    THEN [k \in 1..Len(result) |-> complex2_div(result[k], Number(SqrtInt(N))).value]
    ELSE result

\* lines 724-739: combine the two transformed halves
dfft_combine(even, odd, N, s, inv) ==
    dfft_normalise(
        dfft_butterfly(even, [k \in 1..(N \div 2) |-> Twiddle(inv, k - 1, N, odd)],
                       N \div 2),
        N, s)

\* variant: a list of odd length is returned as it is, with no error
RECURSIVE dfft_unchecked(_, _, _)
dfft_unchecked(x, s, inverse) ==
    LET inv == IF inverse THEN -1 ELSE 1
        N   == Len(x)
    IN  IF N <= 1
        THEN IF N = 0 THEN Raise("IndexError")
             ELSE IF x[1].cx THEN Return(x)
             ELSE Return(<<complex2(x[1].re, PyInt(0))>>)
        ELSE IF N % 2 > 0
        THEN Return(x)
        ELSE LET even == dfft_unchecked(Evens(x), 2 * s, FALSE)
             IN  IF even.raised # "" THEN even
                 ELSE LET odd == dfft_unchecked(Odds(x), 2 * s, FALSE)
                      IN  IF odd.raised # "" THEN odd
                          ELSE Return(dfft_combine(even.value, odd.value, N, s, inv))

RECURSIVE dfft(_, _, _)
dfft(x, s, inverse) ==
    LET inv == IF inverse THEN -1 ELSE 1
        N   == Len(x)
    IN  IF N <= 1
        THEN IF N = 0 THEN Raise("IndexError")
             ELSE IF x[1].cx THEN Return(x)
             ELSE Return(<<complex2(x[1].re, PyInt(0))>>)
        ELSE IF N % 2 > 0
        THEN Raise("ValueError")
        ELSE LET even == dfft(Evens(x), 2 * s, FALSE)
             IN  IF even.raised # "" THEN even
                 ELSE LET odd == dfft(Odds(x), 2 * s, FALSE)
                      IN  IF odd.raised # "" THEN odd
                          ELSE Return(dfft_combine(even.value, odd.value, N, s, inv))

\* variant: the recursion stops at lists of two samples
RECURSIVE dfft_levels_stop_at_pairs(_, _)
dfft_levels_stop_at_pairs(x, s) ==
    IF Len(x) <= 2 \/ Len(x) % 2 > 0
    THEN << [x |-> x, s |-> s] >>
    ELSE << [x |-> x, s |-> s] >> \o dfft_levels_stop_at_pairs(Evens(x), 2 * s)
            \o dfft_levels_stop_at_pairs(Odds(x), 2 * s)

\* lines 719-720: the calls dfft(x, s) makes, itself first, in the order
\* they are entered, each with its list and its scale parameter; a call
\* that raises ends the run
RECURSIVE dfft_levels(_, _)
dfft_levels(x, s) ==
    IF Len(x) <= 1 \/ Len(x) % 2 > 0
    THEN << [x |-> x, s |-> s] >>
    ELSE << [x |-> x, s |-> s] >> \o dfft_levels(Evens(x), 2 * s)
            \o (IF dfft(Evens(x), 2 * s, FALSE).raised # "" THEN << >>
                ELSE dfft_levels(Odds(x), 2 * s))

(***************************************************************************)
(* disc_fourier(x), disc_inv_fourier(X): direct transforms                 *)
(***************************************************************************)
\* variant: the exponent keeps the forward sign in both directions
DirectKernel_forward_only(sgn, n, k, N) ==
    exp2(complex2_div(
            complex2_mul(
                complex2_mul(
                    complex2_rmul(imag_unit, Number(NumMul(PyInt(-2), Pi))),
                    Number(PyInt(n))),
                Number(PyInt(k))),
            Number(PyInt(N))).value)

\* exp2(sgn*2*math.pi*i*n*k/N)
DirectKernel(sgn, n, k, N) ==
    exp2(complex2_div(
            complex2_mul(
                complex2_mul(
                    complex2_rmul(imag_unit, Number(NumMul(PyInt(sgn * 2), Pi))),
                    Number(PyInt(n))),
                Number(PyInt(k))),
            Number(PyInt(N))).value)

\* the accumulator after the inner loop has added the terms 0 .. n-1
RECURSIVE DirectSum(_, _, _, _)
DirectSum(x, sgn, k, n) ==
    IF n = 0 THEN complex2(PyInt(0), PyInt(0))
    ELSE complex2_iadd(DirectSum(x, sgn, k, n - 1),
                       Mul(x[n], DirectKernel(sgn, n - 1, k, Len(x))))

DirectTransform(x, sgn) ==
    [k \in 1..Len(x) |->
        complex2_div(DirectSum(x, sgn, k - 1, Len(x)), Number(SqrtInt(Len(x)))).value]

disc_fourier(x)     == DirectTransform(x, -1)
disc_inv_fourier(X) == DirectTransform(X, 1)

(***************************************************************************)
(* State                                                                   *)
(***************************************************************************)
VARIABLES
    sig,     \* transforms: the sample list x the caller holds
    calls,   \* the calls made so far (transforms: each on the previous result)
    res,     \* outcome of the last call: a returned value or a raised error
    self,    \* complex2: the fields of the dividend object
    other,   \* complex2: the divisor, a number or a complex2
    args,    \* root finders: the arguments of the call
    pc,      \* root finders: "call", "loop" or "done"
    function, derivative, a, b, c, guess1, guess2, i, iterations
             \* root finders: the local variables of the running function

transformVars == <<sig>>
complexVars   == <<self, other>>
rootVars      == <<args, pc, function, derivative, a, b, c, guess1, guess2, i,
                   iterations>>
vars == <<sig, calls, res, self, other, args, pc, function, derivative, a, b, c,
          guess1, guess2, i, iterations>>

None == <<>>
IdleTransform == sig = None
IdleComplex   == self = None /\ other = None
IdleRoot ==
    /\ args = None /\ pc = "idle" /\ function = None /\ derivative = None
    /\ a = None /\ b = None /\ c = None /\ guess1 = None /\ guess2 = None
    /\ i = 0 /\ iterations = 0

(***************************************************************************)
(* Bounds                                                                  *)
(***************************************************************************)
MaxLen     == 4    \* lists of up to MaxLen samples over Samples
MaxLongLen == 12   \* lists of up to MaxLongLen samples over LongSamples
MaxCalls   == 2    \* transforms applied in a row

\* sample values: ints and complex2 objects with int and float fields
Samples ==
    { Number(PyInt(0)), Number(PyInt(1)),
      complex2(PyInt(0), PyInt(1)), complex2(PyFloat(1, 2), PyInt(-2)) }
LongSamples == { Number(PyInt(1)), complex2(PyInt(0), PyInt(1)) }

\* the list of n samples that holds v at 1-based position j, w elsewhere
Impulse(n, j, v, w) == [k \in 1..n |-> IF k = j THEN v ELSE w]

\* every list of up to MaxLen samples; beyond that, up to MaxLongLen, the
\* impulses v*delta_j and the lists that hold v at j and 1 elsewhere
ShortInputs == UNION { [1..n -> Samples] : n \in 0..MaxLen }
LongInputs ==
    { Impulse(n, j, v, w) : <<n, j, v, w>> \in
        ((MaxLen + 1)..MaxLongLen) \X (1..MaxLongLen) \X LongSamples
            \X { Number(PyInt(0)), Number(PyInt(1)) } }
Inputs == ShortInputs \cup LongInputs

IsPowerOfTwo(n) == \E e \in 0..n : 2^e = n
\* lengths whose sqrt and roots of unity lie in Q(sqrt2, sqrt3)
Representable(n) == n \in {0, 1, 2, 3, 4, 6, 8, 12, 24}

(***************************************************************************)
(* Transform calls                                                         *)
(***************************************************************************)
\* the list the next call is applied to
Arg == IF calls = <<>> THEN sig ELSE res.value

CanCall == Len(calls) < MaxCalls /\ res.raised = ""

Call_dfft ==
    /\ CanCall
    /\ res' = dfft(Arg, 1, FALSE)
    /\ calls' = Append(calls, "dfft")
    /\ UNCHANGED <<sig, complexVars, rootVars>>

Call_dfft_inverse ==
    /\ CanCall
    /\ res' = dfft(Arg, 1, TRUE)
    /\ calls' = Append(calls, "dfft_inverse")
    /\ UNCHANGED <<sig, complexVars, rootVars>>

Call_disc_fourier ==
    /\ CanCall
    /\ Representable(Len(Arg))
    /\ res' = Return(disc_fourier(Arg))
    /\ calls' = Append(calls, "disc_fourier")
    /\ UNCHANGED <<sig, complexVars, rootVars>>

Call_disc_inv_fourier ==
    /\ CanCall
    /\ Representable(Len(Arg))
    /\ res' = Return(disc_inv_fourier(Arg))
    /\ calls' = Append(calls, "disc_inv_fourier")
    /\ UNCHANGED <<sig, complexVars, rootVars>>

InitTransform ==
    /\ sig \in Inputs
    /\ calls = <<>>
    /\ res = Return(None)
    /\ IdleComplex /\ IdleRoot

NextTransform ==
    \/ Call_dfft
    \/ Call_dfft_inverse
    \/ Call_disc_fourier
    \/ Call_disc_inv_fourier

SpecTransform == InitTransform /\ [][NextTransform]_vars

(***************************************************************************)
(* complex2 division: z / other and z /= other on a complex2 object z      *)
(***************************************************************************)
MaxComp == 2    \* int fields range over -MaxComp .. MaxComp

\* field values: ints, and the floats 0.0, 0.5, -1.5
Fields == { PyInt(n) : n \in (-MaxComp)..MaxComp }
              \cup { PyFloat(0, 1), PyFloat(1, 2), PyFloat(-3, 2) }
Divisors == { Number(v) : v \in Fields }
              \cup { complex2(re, im) : <<re, im>> \in Fields \X Fields }

\* q = z / other
Call_div ==
    /\ calls = <<>>
    /\ res' = complex2_div(self, other)
    /\ calls' = <<"div">>
    /\ UNCHANGED <<sig, complexVars, rootVars>>

\* z /= other
Call_idiv ==
    /\ calls = <<>>
    /\ res' = [raised |-> complex2_idiv(self, other).raised,
                value |-> complex2_idiv(self, other).value]
    /\ self' = complex2_idiv(self, other).self
    /\ calls' = <<"idiv">>
    /\ UNCHANGED <<sig, other, rootVars>>

InitComplex ==
    /\ self \in { complex2(re, im) : <<re, im>> \in Fields \X Fields }
    /\ other \in Divisors
    /\ calls = <<>>
    /\ res = Return(None)
    /\ IdleTransform /\ IdleRoot

NextComplex == Call_div \/ Call_idiv

SpecComplex == InitComplex /\ [][NextComplex]_vars

(***************************************************************************)
(* Callables.  A callable real -> real is a polynomial of degree <= 2 on   *)
(* each side of a breakpoint: lo[1] + lo[2]*x + lo[3]*x*x for x < at, the  *)
(* same with hi for x >= at.  lo = hi gives a polynomial; constant pieces  *)
(* of opposite sign give a function that changes sign without a zero.      *)
(***************************************************************************)
Poly(p, x) == NumAdd(p[1], NumMul(x, NumAdd(p[2], NumMul(x, p[3]))))
Apply(f, x) == IF NumLt(x, f.at) THEN Poly(f.lo, x) ELSE Poly(f.hi, x)

Polynomial(c0, c1, c2) ==
    [at |-> PyInt(0), lo |-> <<c0, c1, c2>>, hi |-> <<c0, c1, c2>>]
Piecewise(r, lo, hi) == [at |-> r, lo |-> lo, hi |-> hi]

(***************************************************************************)
(* num_bisection(function, a, b, iterations)                               *)
(***************************************************************************)
Million == 1000000
\* tol = 0.000001
tol == PyFloat(1, Million)

\* -tol <= v <= tol for v = n/q: |n| * tol[5] <= q * tol[1]
WithinTol(v) == Abs(v[1]) <= (v[5] * tol[1]) \div tol[5]

\* variant: the wrong end is replaced
bisection_update_swapped(f, lo, hi, mid) ==
    IF Sign(NumMul(Apply(f, mid), Apply(f, lo))) > 0
    THEN <<lo, mid>>
    ELSE <<mid, hi>>

\* lines 814-817: the bracket <<a, b>> after the midpoint c replaced one end
bisection_update(f, lo, hi, mid) ==
    IF Sign(NumMul(Apply(f, mid), Apply(f, lo))) > 0
    THEN <<mid, hi>>
    ELSE <<lo, mid>>

\* variant: the bracket is used in the order given
OrderBracket_as_given(x, y) == <<x, y>>

\* lines 806-807 and 836-837: if a > b: a, b = b, a
OrderBracket(x, y) == IF NumLt(y, x) THEN <<y, x>> ELSE <<x, y>>

\* lines 802-811: up to the first pass of the loop
num_bisection_begin ==
    /\ pc = "call"
    /\ LET lo  == OrderBracket(args.a, args.b)[1]
           hi  == OrderBracket(args.a, args.b)[2]
           mid == NumDiv(NumAdd(lo, hi), PyFloat(2, 1))
           f   == args.function
       IN  /\ function' = f
           /\ iterations' = Abs(args.iterations)
           /\ a' = lo /\ b' = hi /\ c' = mid
           /\ IF IsZero(Apply(f, lo)) THEN res' = Return(lo) /\ pc' = "done"
              ELSE IF IsZero(Apply(f, hi)) THEN res' = Return(hi) /\ pc' = "done"
              ELSE IF IsZero(Apply(f, mid)) THEN res' = Return(mid) /\ pc' = "done"
              ELSE res' = res /\ pc' = "loop"
    /\ i' = 0
    /\ calls' = <<"num_bisection">>
    /\ UNCHANGED <<sig, complexVars, args, derivative, guess1, guess2>>

\* lines 813-824: one pass of the loop, i in range(iterations-1)
num_bisection_iterate ==
    /\ pc = "loop"
    /\ i < iterations - 1
    /\ LET ab  == bisection_update(function, a, b, c)
           mid == NumDiv(NumAdd(ab[1], ab[2]), PyFloat(2, 1))
       IN  /\ a' = ab[1] /\ b' = ab[2] /\ c' = mid
           /\ IF IsZero(Apply(function, mid))
                 \/ WithinTol(NumDiv(NumSub(ab[1], ab[2]), PyInt(2)))
              THEN res' = Return(mid) /\ pc' = "done" /\ i' = i
              ELSE IF i = iterations - 1
              THEN /\ res' = Raise("No root was found. Try new guesses.")
                   /\ pc' = "done" /\ i' = i
              ELSE res' = res /\ pc' = "loop" /\ i' = i + 1
    /\ UNCHANGED <<sig, calls, complexVars, args, function, derivative,
                   guess1, guess2, iterations>>

\* the loop ends and the function falls off its end: None is returned
num_bisection_exhausted ==
    /\ pc = "loop"
    /\ i >= iterations - 1
    /\ res' = Return(None)
    /\ pc' = "done"
    /\ UNCHANGED <<sig, calls, complexVars, args, function, derivative, a, b, c,
                   guess1, guess2, i, iterations>>

MaxIter    == 4    \* iteration budgets of num_bisection: -1 .. MaxIter
MaxBracket == 8    \* bracket ends: 0 .. MaxBracket, in units of 1e-6

\* bracket ends: the int 0 and the floats k * 1e-6
BracketEnds == { PyInt(0) } \cup { PyFloat(k, Million) : k \in 1..MaxBracket }

\* x in units of 1e-6, minus m: a line through zero at m * 1e-6
Line(m) == <<NumNeg(m), PyInt(Million), PyInt(0)>>
Const(v) == <<v, PyInt(0), PyInt(0)>>
Negated(p) == <<NumNeg(p[1]), NumNeg(p[2]), NumNeg(p[3])>>

BisectionFunctions ==
    { Piecewise(PyInt(0), Line(m), Line(m)) :
            m \in { PyInt(2), PyInt(4), PyFloat(7, 3), PyFloat(11, 2) } }
    \cup { Piecewise(PyInt(0), Negated(Line(m)), Negated(Line(m))) :
            m \in { PyInt(1), PyFloat(16, 3) } }
    \cup { Piecewise(PyFloat(r, 3 * Million), Const(PyInt(-1)), Const(PyInt(1))) :
            r \in { 4, 17 } }
    \cup { Piecewise(PyFloat(4, Million), Line(PyFloat(3, 2)), Line(PyFloat(13, 2))),
           Piecewise(PyInt(0), Const(PyInt(1)), Const(PyInt(1))) }

InitBisection ==
    /\ args \in [function : BisectionFunctions, a : BracketEnds, b : BracketEnds,
                 iterations : (-1)..MaxIter]
    /\ pc = "call"
    /\ function = None /\ derivative = None
    /\ a = None /\ b = None /\ c = None /\ guess1 = None /\ guess2 = None
    /\ i = 0 /\ iterations = 0
    /\ calls = <<>>
    /\ res = Return(None)
    /\ IdleTransform /\ IdleComplex

NextBisection ==
    \/ num_bisection_begin
    \/ num_bisection_iterate
    \/ num_bisection_exhausted

SpecBisection == InitBisection /\ [][NextBisection]_vars

\* lines 813-824 as a whole: the outcome of the loop from pass k on
RECURSIVE bisection_loop(_, _, _, _, _, _)
RECURSIVE bisection_pass(_, _, _, _)
bisection_loop(f, lo, hi, mid, k, n) ==
    IF k >= n - 1 THEN Return(None)
    ELSE bisection_pass(f, bisection_update(f, lo, hi, mid), k, n)

\* lines 818-824 for the updated bracket ab
bisection_pass(f, ab, k, n) ==
    IF IsZero(Apply(f, NumDiv(NumAdd(ab[1], ab[2]), PyFloat(2, 1))))
          \/ WithinTol(NumDiv(NumSub(ab[1], ab[2]), PyInt(2)))
    THEN Return(NumDiv(NumAdd(ab[1], ab[2]), PyFloat(2, 1)))
    ELSE IF k = n - 1
    THEN Raise("No root was found. Try new guesses.")
    ELSE bisection_loop(f, ab[1], ab[2],
                        NumDiv(NumAdd(ab[1], ab[2]), PyFloat(2, 1)), k + 1, n)

\* lines 808-824 for the ordered bracket ab
bisection_ordered(f, ab, n) ==
    IF IsZero(Apply(f, ab[1])) THEN Return(ab[1])
    ELSE IF IsZero(Apply(f, ab[2])) THEN Return(ab[2])
    ELSE IF IsZero(Apply(f, NumDiv(NumAdd(ab[1], ab[2]), PyFloat(2, 1))))
    THEN Return(NumDiv(NumAdd(ab[1], ab[2]), PyFloat(2, 1)))
    ELSE bisection_loop(f, ab[1], ab[2],
                        NumDiv(NumAdd(ab[1], ab[2]), PyFloat(2, 1)), 0, n)

\* the outcome of the call num_bisection(f, x, y, n)
num_bisection(f, x, y, n) == bisection_ordered(f, OrderBracket(x, y), Abs(n))

(***************************************************************************)
(* num_newton(function, derivative, guess, iterations)                     *)
(***************************************************************************)
\* line 858
num_newton_begin ==
    /\ pc = "call"
    /\ function' = args.function
    /\ derivative' = args.derivative
    /\ iterations' = args.iterations
    /\ c' = args.guess
    /\ i' = 0
    /\ pc' = "loop"
    /\ calls' = <<"num_newton">>
    /\ UNCHANGED <<sig, res, complexVars, args, a, b, guess1, guess2>>

\* variant: a zero derivative leaves c as it is
newton_update_guarded(fc, dc, x) ==
    IF IsZero(dc) THEN Return(x)
    ELSE Return(NumSub(x, NumDiv(fc, dc)))

\* line 863, c -= fc/derivative(c): Python raises when the divisor is zero
newton_update(fc, dc, x) ==
    IF IsZero(dc) THEN Raise("ZeroDivisionError")
    ELSE Return(NumSub(x, NumDiv(fc, dc)))

MaxMagnitude == 100    \* iterates n/q are followed while |n|, q <= MaxMagnitude
InRange(x) == Abs(x[1]) <= MaxMagnitude /\ x[5] <= MaxMagnitude

\* lines 859-863: one pass of the loop, i in range(iterations)
num_newton_iterate ==
    /\ pc = "loop"
    /\ i < iterations
    /\ InRange(c)
    /\ LET fc == Apply(function, c)
       IN  IF IsZero(fc)
           THEN res' = Return(c) /\ pc' = "done" /\ UNCHANGED <<c, i>>
           ELSE LET upd == newton_update(fc, Apply(derivative, c), c)
                IN  IF upd.raised # ""
                    THEN res' = upd /\ pc' = "done" /\ UNCHANGED <<c, i>>
                    ELSE c' = upd.value /\ i' = i + 1 /\ UNCHANGED <<res, pc>>
    /\ UNCHANGED <<sig, calls, complexVars, args, function, derivative, a, b,
                   guess1, guess2, iterations>>

\* line 864: the loop is over
num_newton_return ==
    /\ pc = "loop"
    /\ i >= iterations
    /\ res' = Return(c)
    /\ pc' = "done"
    /\ UNCHANGED <<sig, calls, complexVars, args, function, derivative, a, b, c,
                   guess1, guess2, i, iterations>>

MaxNewtonIter == 3    \* iteration counts of num_newton: 0 .. MaxNewtonIter

NewtonFunctions ==
    { Polynomial(PyInt(c0), PyInt(c1), PyInt(c2)) :
        <<c0, c1, c2>> \in {-2, 0, 1} \X {-1, 0} \X {0, 1} }
NewtonDerivatives ==
    { Polynomial(PyInt(c0), PyInt(c1), PyInt(0)) :
        <<c0, c1>> \in {-1, 0, 2} \X {0, 2} }
Guesses == { PyInt(0), PyInt(1), PyFloat(3, 2), PyFloat(-1, 2) }

InitNewton ==
    /\ args \in [function : NewtonFunctions, derivative : NewtonDerivatives,
                 guess : Guesses, iterations : 0..MaxNewtonIter]
    /\ pc = "call"
    /\ function = None /\ derivative = None
    /\ a = None /\ b = None /\ c = None /\ guess1 = None /\ guess2 = None
    /\ i = 0 /\ iterations = 0
    /\ calls = <<>>
    /\ res = Return(None)
    /\ IdleTransform /\ IdleComplex

NextNewton ==
    \/ num_newton_begin
    \/ num_newton_iterate
    \/ num_newton_return

SpecNewton == InitNewton /\ [][NextNewton]_vars

(***************************************************************************)
(* num_secant(function, guess1, guess2, iterations, tol = 0.000001)        *)
(***************************************************************************)
num_secant_begin ==
    /\ pc = "call"
    /\ function' = args.function
    /\ iterations' = args.iterations
    /\ guess1' = args.guess1
    /\ guess2' = args.guess2
    /\ i' = 0
    /\ pc' = "loop"
    /\ calls' = <<"num_secant">>
    /\ UNCHANGED <<sig, res, complexVars, args, derivative, a, b, c>>

\* variant: equal function values leave guess1 as it is
secant_update_guarded(f1, f2, g1, g2) ==
    IF IsZero(NumSub(f1, f2)) THEN Return(g1)
    ELSE Return(NumSub(g1, NumDiv(NumMul(f1, NumSub(g1, g2)), NumSub(f1, f2))))

\* line 883, c = guess1 - f1*(guess1-guess2)/(f1-f2)
secant_update(f1, f2, g1, g2) ==
    IF IsZero(NumSub(f1, f2)) THEN Raise("ZeroDivisionError")
    ELSE Return(NumSub(g1, NumDiv(NumMul(f1, NumSub(g1, g2)), NumSub(f1, f2))))

\* variant: only guess1 is ever returned
secant_exit_guess1_only(f1, f2, g1, g2) ==
    IF IsZero(f1) \/ WithinTol(NumSub(g1, g2)) THEN <<g1>>
    ELSE <<>>

\* lines 876-879: the guess an early return gives back, <<>> when the pass
\* goes on to the update
secant_exit(f1, f2, g1, g2) ==
    IF IsZero(f1) \/ WithinTol(NumSub(g1, g2)) THEN <<g1>>
    ELSE IF IsZero(f2) THEN <<g2>>
    ELSE <<>>

\* lines 871-885: one pass of the loop, i in range(iterations)
num_secant_iterate ==
    /\ pc = "loop"
    /\ i < iterations
    /\ (InRange(guess1) /\ InRange(guess2)) \/ WithinTol(NumSub(guess1, guess2))
    /\ LET f1 == Apply(function, guess1)
           f2 == Apply(function, guess2)
       IN  IF secant_exit(f1, f2, guess1, guess2) # <<>>
           THEN res' = Return(secant_exit(f1, f2, guess1, guess2)[1])
                /\ pc' = "done"
                /\ UNCHANGED <<c, guess1, guess2, i>>
           ELSE LET upd == secant_update(f1, f2, guess1, guess2)
                IN  IF upd.raised # ""
                    THEN res' = upd /\ pc' = "done"
                         /\ UNCHANGED <<c, guess1, guess2, i>>
                    ELSE /\ c' = upd.value
                         /\ guess2' = guess1
                         /\ guess1' = upd.value
                         /\ i' = i + 1
                         /\ UNCHANGED <<res, pc>>
    /\ UNCHANGED <<sig, calls, complexVars, args, function, derivative, a, b,
                   iterations>>

\* line 886: the loop is over
num_secant_return ==
    /\ pc = "loop"
    /\ i >= iterations
    /\ res' = Return(guess1)
    /\ pc' = "done"
    /\ UNCHANGED <<sig, calls, complexVars, args, function, derivative, a, b, c,
                   guess1, guess2, i, iterations>>

MaxSecantIter == 3    \* iteration counts of num_secant: 0 .. MaxSecantIter

SecantFunctions ==
    { Polynomial(PyInt(c0), PyInt(c1), PyInt(c2)) :
        <<c0, c1, c2>> \in {-2, 0, 1} \X {-1, 0} \X {0, 1} }
    \cup { Piecewise(PyFloat(1, 2), Const(PyInt(-1)), Const(PyInt(1))),
           Piecewise(PyFloat(1, 2), Const(PyFloat(-1, 2)), Const(PyInt(3))) }
\* pairs of guesses far apart and, for the lines and steps, pairs that are
\* 0.5e-6 or exactly 1e-6 apart
CoarseGuesses == { PyInt(-1), PyInt(0), PyInt(1), PyFloat(3, 2), PyInt(2) }
ClosePairs ==
    { <<g, NumAdd(g, PyFloat(k, 2 * Million))>> : <<g, k>> \in {PyInt(0), PyInt(1)} \X {1, 2} }
    \cup { <<NumAdd(g, PyFloat(k, 2 * Million)), g>> : <<g, k>> \in {PyInt(0), PyInt(1)} \X {1, 2} }

InitSecant ==
    /\ \E f \in SecantFunctions, n \in 0..MaxSecantIter,
          g \in (CoarseGuesses \X CoarseGuesses) \cup ClosePairs :
          /\ g \in ClosePairs => (IsZero(f.lo[3]) /\ IsZero(f.hi[3]))
          /\ args = [function |-> f, guess1 |-> g[1], guess2 |-> g[2],
                     iterations |-> n]
    /\ pc = "call"
    /\ function = None /\ derivative = None
    /\ a = None /\ b = None /\ c = None /\ guess1 = None /\ guess2 = None
    /\ i = 0 /\ iterations = 0
    /\ calls = <<>>
    /\ res = Return(None)
    /\ IdleTransform /\ IdleComplex

NextSecant ==
    \/ num_secant_begin
    \/ num_secant_iterate
    \/ num_secant_return

SpecSecant == InitSecant /\ [][NextSecant]_vars

(***************************************************************************)
(* num_linear(function, a, b, iterations)                                  *)
(***************************************************************************)
\* line 842: the divisor fb/fa - 1
linear_divisor(f, lo, hi) ==
    NumSub(NumDiv(Apply(f, hi), Apply(f, lo)), PyInt(1))

\* line 842 divides by zero: fa = 0, or fb/fa = 1
linear_fails(f, lo, hi) ==
    IF IsZero(Apply(f, lo)) THEN TRUE ELSE IsZero(linear_divisor(f, lo, hi))

\* line 842: c = a - (b-a)/(fb/fa - 1)
linear_point(f, lo, hi) ==
    NumSub(lo, NumDiv(NumSub(hi, lo), linear_divisor(f, lo, hi)))

\* line 845: the test that ends the call with c
linear_stops(f, lo, hi, mid) == IsZero(Apply(f, mid))

\* lines 847-850: the bracket <<a, b>> after c replaced one end
linear_update(f, lo, hi, mid) ==
    IF Sign(NumMul(Apply(f, mid), Apply(f, lo))) > 0
    THEN <<mid, hi>>
    ELSE <<lo, mid>>

\* lines 835-837: up to the loop; c is not bound yet
num_linear_begin ==
    /\ pc = "call"
    /\ function' = args.function
    /\ iterations' = Abs(args.iterations)
    /\ a' = OrderBracket(args.a, args.b)[1]
    /\ b' = OrderBracket(args.a, args.b)[2]
    /\ c' = None
    /\ i' = 0
    /\ pc' = "linear"
    /\ calls' = <<"num_linear">>
    /\ UNCHANGED <<sig, complexVars, res, args, derivative, guess1, guess2>>

\* brackets the model follows: ends of bounded size, or ends within tol
LinearInRange(lo, hi) ==
    (InRange(lo) /\ InRange(hi)) \/ WithinTol(NumSub(hi, lo))

\* lines 839-850: one pass of the loop, i in range(iterations)
num_linear_iterate ==
    /\ pc = "linear"
    /\ i < iterations
    /\ LinearInRange(a, b)
    /\ IF linear_fails(function, a, b)
       THEN /\ res' = Raise("ZeroDivisionError")
            /\ pc' = "done"
            /\ UNCHANGED <<a, b, c, i>>
       ELSE /\ c' = linear_point(function, a, b)
            /\ IF linear_stops(function, a, b, linear_point(function, a, b))
               THEN /\ res' = Return(linear_point(function, a, b))
                    /\ pc' = "done"
                    /\ UNCHANGED <<a, b, i>>
               ELSE /\ a' = linear_update(function, a, b,
                                          linear_point(function, a, b))[1]
                    /\ b' = linear_update(function, a, b,
                                          linear_point(function, a, b))[2]
                    /\ i' = i + 1
                    /\ UNCHANGED <<res, pc>>
    /\ UNCHANGED <<sig, calls, complexVars, args, function, derivative,
                   guess1, guess2, iterations>>

\* line 851: return c; with no pass made c was never assigned
num_linear_return ==
    /\ pc = "linear"
    /\ i >= iterations
    /\ res' = IF c = None THEN Raise("UnboundLocalError") ELSE Return(c)
    /\ pc' = "done"
    /\ UNCHANGED <<sig, calls, complexVars, args, function, derivative, a, b, c,
                   guess1, guess2, i, iterations>>

\* lines 839-851 as a whole: the outcome of the loop from pass k on, with
\* last the value of c (None before the first pass)
RECURSIVE linear_loop(_, _, _, _, _, _)
RECURSIVE linear_pass(_, _, _, _, _, _)
linear_loop(f, lo, hi, last, k, n) ==
    IF k >= n
    THEN IF last = None THEN Raise("UnboundLocalError") ELSE Return(last)
    ELSE IF linear_fails(f, lo, hi) THEN Raise("ZeroDivisionError")
    ELSE linear_pass(f, lo, hi, linear_point(f, lo, hi), k, n)

linear_pass(f, lo, hi, mid, k, n) ==
    IF linear_stops(f, lo, hi, mid) THEN Return(mid)
    ELSE linear_loop(f, linear_update(f, lo, hi, mid)[1],
                     linear_update(f, lo, hi, mid)[2], mid, k + 1, n)

linear_ordered(f, ab, n) == linear_loop(f, ab[1], ab[2], None, 0, n)

\* the outcome of the call num_linear(f, x, y, n)
num_linear(f, x, y, n) == linear_ordered(f, OrderBracket(x, y), Abs(n))

MaxLinearIter == 3    \* iteration counts of num_linear: -1 .. MaxLinearIter

\* x*x - 2, lines, steps with and without a sign change, constants
LinearFunctions ==
    { Polynomial(PyInt(-2), PyInt(0), PyInt(1)),
      Polynomial(PyInt(-3), PyInt(2), PyInt(0)),
      Polynomial(PyInt(1), PyInt(-1), PyInt(0)),
      Polynomial(PyInt(1), PyInt(0), PyInt(0)),
      Piecewise(PyFloat(1, 3), Const(PyInt(-1)), Const(PyInt(1))),
      Piecewise(PyFloat(4, 3), Const(PyInt(-1)), Const(PyInt(3))),
      Piecewise(PyFloat(1, 3 * Million), Const(PyInt(-1)), Const(PyInt(1))),
      Piecewise(PyFloat(5, 4), Const(PyInt(2)), Const(PyInt(3))) }

\* bracket ends: ints, floats, and floats 1e-6 apart
LinearEnds == { PyInt(0), PyInt(1), PyInt(2), PyInt(3),
                PyFloat(0, 1), PyFloat(1, 1), PyFloat(2, 1), PyFloat(3, 2),
                PyFloat(1, Million) }

\* the end 1e-6 is paired with the lines, steps and constants only
InitLinear ==
    /\ args \in [function : LinearFunctions, a : LinearEnds, b : LinearEnds,
                 iterations : (-1)..MaxLinearIter]
    /\ PyFloat(1, Million) \in {args.a, args.b}
          => (IsZero(args.function.lo[3]) /\ IsZero(args.function.hi[3]))
    /\ pc = "call"
    /\ function = None /\ derivative = None
    /\ a = None /\ b = None /\ c = None /\ guess1 = None /\ guess2 = None
    /\ i = 0 /\ iterations = 0
    /\ calls = <<>>
    /\ res = Return(None)
    /\ IdleTransform /\ IdleComplex

NextLinear ==
    \/ num_linear_begin
    \/ num_linear_iterate
    \/ num_linear_return

SpecLinear == InitLinear /\ [][NextLinear]_vars

(***************************************************************************)
(* The two bracketing root finders side by side: either one is called on   *)
(* the arguments of either family                                          *)
(***************************************************************************)
InitBracket ==
    \/ InitBisection
    \/ InitLinear /\ PyFloat(1, Million) \notin {args.a, args.b}

NextBracket == NextBisection \/ NextLinear

SpecBracket == InitBracket /\ [][NextBracket]_vars

(***************************************************************************)
(* disc_convolve(f, g)                                                     *)
(***************************************************************************)
\* Python's x * y on two values: int/float product, complex2.__mul__ when
\* x is a complex2, complex2.__rmul__ when only y is
PyMul(x, y) ==
    IF x.cx \/ y.cx THEN Mul(x, y) ELSE Number(NumMul(x.re, y.re))

\* sums += term for a plain number sums: int and float have no addition
\* with a complex2 and complex2 defines no __radd__
number_iadd(sums, term) ==
    IF term.cx THEN Raise("TypeError")
    ELSE Return(Number(NumAdd(sums.re, term.re)))

\* line 679: the test that lets the term of the 0-based indices ix, j in
convolve_includes(ix, j) == ix >= j

\* lines 677-680: sums after the inner loop has run over j = 0 .. n-1 for
\* the 0-based index ix, or the error that ended it
RECURSIVE convolve_sums(_, _, _, _)
convolve_sums(f, g, ix, n) ==
    IF n = 0 THEN Return(Number(PyInt(0)))
    ELSE IF convolve_sums(f, g, ix, n - 1).raised # ""
    THEN convolve_sums(f, g, ix, n - 1)
    ELSE IF convolve_includes(ix, n - 1)
    THEN number_iadd(convolve_sums(f, g, ix, n - 1).value,
                     PyMul(f[ix - (n - 1) + 1], g[n]))
    ELSE convolve_sums(f, g, ix, n - 1)

\* lines 675-682
disc_convolve(f, g) ==
    IF \E k \in 1..Len(f) : convolve_sums(f, g, k - 1, Len(g)).raised # ""
    THEN Raise("TypeError")
    ELSE Return([k \in 1..Len(f) |-> convolve_sums(f, g, k - 1, Len(g)).value])

Call_disc_convolve ==
    /\ pc = "call"
    /\ calls = <<>>
    /\ "g" \in DOMAIN args
    /\ res' = disc_convolve(args.f, args.g)
    /\ calls' = <<"disc_convolve">>
    /\ pc' = "done"
    /\ UNCHANGED <<sig, complexVars, args, function, derivative, a, b, c,
                   guess1, guess2, i, iterations>>

MaxConvLen == 3    \* the lists f and g hold up to MaxConvLen samples

\* samples: ints, a float and a complex2
ConvSamples ==
    { Number(PyInt(0)), Number(PyInt(1)), Number(PyInt(-2)),
      Number(PyFloat(1, 2)), complex2(PyInt(0), PyInt(1)) }

ConvInputs == UNION { [1..n -> ConvSamples] : n \in 0..MaxConvLen }

InitConvolve ==
    /\ args \in [f : ConvInputs, g : ConvInputs]
    /\ pc = "call"
    /\ function = None /\ derivative = None
    /\ a = None /\ b = None /\ c = None /\ guess1 = None /\ guess2 = None
    /\ i = 0 /\ iterations = 0
    /\ calls = <<>>
    /\ res = Return(None)
    /\ IdleTransform /\ IdleComplex

NextConvolve == Call_disc_convolve

SpecConvolve == InitConvolve /\ [][NextConvolve]_vars

(***************************************************************************)
(* runge_kutta4(y, f, t, dt) in exact arithmetic.  A derivative f(t, y) is *)
(* one of: a constant, -y, t, y + t.                                       *)
(***************************************************************************)
ApplyDerivative(f, t, y) ==
    CASE f.kind = "const"    -> f.value
      [] f.kind = "neg_y"    -> NumNeg(y)
      [] f.kind = "t"        -> t
      [] f.kind = "y_plus_t" -> NumAdd(y, t)

\* lines 787-788: f(t + dt/2, y + k*dt/2) for k = k1 and for k = k2
rk4_midpoint(y, f, t, dt, k) ==
    ApplyDerivative(f, NumAdd(t, NumDiv(dt, PyInt(2))),
                       NumAdd(y, NumDiv(NumMul(k, dt), PyInt(2))))

\* line 789: f(t + dt, y + dt*k3)
rk4_endpoint(y, f, t, dt, k3) ==
    ApplyDerivative(f, NumAdd(t, dt), NumAdd(y, NumMul(dt, k3)))

\* line 790: y + (dt/6)*(k1 + 2*k2 + 2*k3 + k4)
rk4_combine(y, dt, k1, k2, k3, k4) ==
    NumAdd(y, NumMul(NumDiv(dt, PyInt(6)),
                     NumAdd(NumAdd(NumAdd(k1, NumMul(PyInt(2), k2)),
                                   NumMul(PyInt(2), k3)), k4)))

rk4_from_k3(y, f, t, dt, k1, k2, k3) ==
    rk4_combine(y, dt, k1, k2, k3, rk4_endpoint(y, f, t, dt, k3))
rk4_from_k2(y, f, t, dt, k1, k2) ==
    rk4_from_k3(y, f, t, dt, k1, k2, rk4_midpoint(y, f, t, dt, k2))
rk4_from_k1(y, f, t, dt, k1) ==
    rk4_from_k2(y, f, t, dt, k1, rk4_midpoint(y, f, t, dt, k1))

\* lines 777-791
runge_kutta4(y, f, t, dt) == rk4_from_k1(y, f, t, dt, ApplyDerivative(f, t, y))

Call_runge_kutta4 ==
    /\ pc = "call"
    /\ calls = <<>>
    /\ "dt" \in DOMAIN args
    /\ res' = Return(runge_kutta4(args.y, args.f, args.t, args.dt))
    /\ calls' = <<"runge_kutta4">>
    /\ pc' = "done"
    /\ UNCHANGED <<sig, complexVars, args, function, derivative, a, b, c,
                   guess1, guess2, i, iterations>>

MaxStepSize == 3    \* steps dt: the ints 1 .. MaxStepSize and the floats k/2, k/10

StepSizes ==
    { PyInt(k) : k \in 1..MaxStepSize }
    \cup { PyFloat(k, 2) : k \in 1..MaxStepSize }
    \cup { PyFloat(k, 10) : k \in 1..MaxStepSize }

Derivatives ==
    { [kind |-> "const", value |-> v] : v \in { PyInt(1), PyInt(-3), PyFloat(1, 2) } }
    \cup { [kind |-> k, value |-> PyInt(0)] : k \in { "neg_y", "t", "y_plus_t" } }

InitStepper ==
    /\ args \in [y : { PyInt(0), PyInt(1), PyFloat(1, 2) }, f : Derivatives,
                 t : { PyInt(0), PyInt(1), PyFloat(1, 4) }, dt : StepSizes]
    /\ pc = "call"
    /\ function = None /\ derivative = None
    /\ a = None /\ b = None /\ c = None /\ guess1 = None /\ guess2 = None
    /\ i = 0 /\ iterations = 0
    /\ calls = <<>>
    /\ res = Return(None)
    /\ IdleTransform /\ IdleComplex

NextStepper == Call_runge_kutta4

SpecStepper == InitStepper /\ [][NextStepper]_vars

(***************************************************************************)
(* runge_kutta4 on floats, for long runs.  The exact value of y after many *)
(* steps has a denominator far beyond the integers at hand, so a float is  *)
(* enclosed here by a pair <<lo, hi>> of ints, in units of 1e-8, with      *)
(* lo <= float <= hi.  Every operation rounds outward by one more unit     *)
(* than exact arithmetic needs, which covers the rounding of the IEEE      *)
(* double operation it models (relative error 2^-53) for values |v| < 10.  *)
(* The step is dt = 1/n and the derivative is f(t, y) = -y.                *)
(***************************************************************************)
Unit == 10 ^ 8

EnOutward(lo, hi) == <<lo - 1, hi + 1>>
EnCeilDiv(m, n)   == -((-m) \div n)
EnAdd(x, y)  == EnOutward(x[1] + y[1], x[2] + y[2])
EnNeg(x)     == <<-x[2], -x[1]>>
EnDouble(x)  == <<2 * x[1], 2 * x[2]>>
\* x/n, and x*dt for dt = 1/n
EnDiv(x, n)  == EnOutward(x[1] \div n, EnCeilDiv(x[2], n))

\* f(t, y) = -y
enclosed_decay(y) == EnNeg(y)

\* lines 787-788: f(t + dt/2, y + k*dt/2)
enclosed_midpoint(y, n, k) == enclosed_decay(EnAdd(y, EnDiv(EnDiv(k, n), 2)))

\* line 789: f(t + dt, y + dt*k3)
enclosed_endpoint(y, n, k3) == enclosed_decay(EnAdd(y, EnDiv(k3, n)))

\* variant: k2 enters the sum once instead of twice
enclosed_combine_unweighted(y, n, k1, k2, k3, k4) ==
    EnAdd(y, EnDiv(EnAdd(EnAdd(EnAdd(k1, k2), EnDouble(k3)), k4), 6 * n))

\* line 790: y + (dt/6)*(k1 + 2*k2 + 2*k3 + k4)
enclosed_combine(y, n, k1, k2, k3, k4) ==
    EnAdd(y, EnDiv(EnAdd(EnAdd(EnAdd(k1, EnDouble(k2)), EnDouble(k3)), k4), 6 * n))

enclosed_from_k3(y, n, k1, k2, k3) ==
    enclosed_combine(y, n, k1, k2, k3, enclosed_endpoint(y, n, k3))
enclosed_from_k2(y, n, k1, k2) ==
    enclosed_from_k3(y, n, k1, k2, enclosed_midpoint(y, n, k2))
enclosed_from_k1(y, n, k1) ==
    enclosed_from_k2(y, n, k1, enclosed_midpoint(y, n, k1))

\* lines 786-791 for f(t, y) = -y and dt = 1/n
enclosed_runge_kutta4(y, n) == enclosed_from_k1(y, n, enclosed_decay(y))

MaxSteps == 100    \* number of steps a caller takes in a row

\* one more call y = runge_kutta4(y, f, t, dt) of the caller's loop
integrate_step ==
    /\ pc = "integrate"
    /\ i < MaxSteps
    /\ res' = Return(enclosed_runge_kutta4(res.value, args.n))
    /\ i' = i + 1
    /\ calls' = <<"runge_kutta4">>
    /\ UNCHANGED <<sig, complexVars, args, pc, function, derivative, a, b, c,
                   guess1, guess2, iterations>>

\* y(0) = 1 or 2, dt = 1/100 or 1/50
InitIntegrate ==
    /\ args \in [y : { <<Unit, Unit>>, <<2 * Unit, 2 * Unit>> }, n : { 100, 50 }]
    /\ res = Return(args.y)
    /\ pc = "integrate"
    /\ function = None /\ derivative = None
    /\ a = None /\ b = None /\ c = None /\ guess1 = None /\ guess2 = None
    /\ i = 0 /\ iterations = 0
    /\ calls = <<>>
    /\ IdleTransform /\ IdleComplex

NextIntegrate == integrate_step

SpecIntegrate == InitIntegrate /\ [][NextIntegrate]_vars

(***************************************************************************)
(* C4: for every power-of-two-length input x, dfft(x) returns the same     *)
(* coefficients, index by index, as disc_fourier(x).                       *)
(***************************************************************************)
C4_ForwardAgreesWithDirect ==
    (calls = <<"dfft">> /\ Len(sig) >= 1 /\ IsPowerOfTwo(Len(sig)))
        => (res.raised = "" /\ SeqValEq(res.value, disc_fourier(sig)))

\* a length-8 forward transform with a coefficient off the real axis
C4_Witness ==
    /\ calls = <<"dfft">> /\ Len(sig) = 8 /\ res.raised = ""
    /\ \E k \in 1..8 : ~IsZero(res.value[k].im) /\ ~IsRational(res.value[k].re)

(***************************************************************************)
(* C2: for every power-of-two-length x, dfft(dfft(x), inverse=True)        *)
(* reconstructs x.                                                         *)
(***************************************************************************)
C2_RecursiveRoundTrip ==
    (calls = <<"dfft", "dfft_inverse">> /\ Len(sig) >= 1 /\ IsPowerOfTwo(Len(sig)))
        => (res.raised = "" /\ SeqValEq(res.value, sig))

(***************************************************************************)
(* C3: for every power-of-two-length X, dfft(X, inverse=True) returns the  *)
(* same coefficients as disc_inv_fourier(X).                               *)
(***************************************************************************)
C3_InverseAgreesWithDirect ==
    (calls = <<"dfft_inverse">> /\ Len(sig) >= 1 /\ IsPowerOfTwo(Len(sig)))
        => (res.raised = "" /\ SeqValEq(res.value, disc_inv_fourier(sig)))

(***************************************************************************)
(* C5: for every x of length N >= 1, disc_inv_fourier(disc_fourier(x))     *)
(* reconstructs x.                                                         *)
(***************************************************************************)
C5_DirectRoundTrip ==
    (calls = <<"disc_fourier", "disc_inv_fourier">> /\ Len(sig) >= 1)
        => (res.raised = "" /\ SeqValEq(res.value, sig))

\* a round trip over a length that is not a power of two, complex samples
C5_Witness ==
    /\ calls = <<"disc_fourier", "disc_inv_fourier">>
    /\ Len(sig) \in {3, 6} /\ \E k \in 1..Len(sig) : sig[k].cx
    /\ SeqValEq(res.value, sig)

(***************************************************************************)
(* C6: for every length N >= 1 that is not a power of two, dfft raises     *)
(* the ValueError of its length check and returns no list.                 *)
(***************************************************************************)
C6_InvalidLengthRaises ==
    (Len(calls) = 1 /\ calls[1] \in {"dfft", "dfft_inverse"}
        /\ Len(sig) >= 1 /\ ~IsPowerOfTwo(Len(sig)))
        => (res.raised = "ValueError" /\ res.value = <<>>)

\* an even length whose halving meets the odd length 3 two levels down
C6_Witness ==
    /\ calls = <<"dfft">> /\ Len(sig) = 12 /\ res.raised = "ValueError"

(***************************************************************************)
(* C8: z / d and z /= d raise the divide-by-zero error exactly when d is   *)
(* the number 0 or a complex2 with both fields zero; the dividend object   *)
(* then keeps its fields; for every other divisor a complex2 is returned.  *)
(***************************************************************************)
ZeroDivisor == IF other.cx THEN IsZero(other.re) /\ IsZero(other.im)
               ELSE IsZero(other.re)

C8_DivideByZero ==
    [][ (calls = <<>> /\ calls' # <<>>) =>
          IF ZeroDivisor
          THEN /\ res'.raised = "Cannot divide by zero"
               /\ res'.value = None
               /\ self' = self
          ELSE /\ res'.raised = ""
               /\ res'.value.cx ]_vars

\* z /= d with a complex2 d of zero magnitude has raised
C8_Witness ==
    /\ calls = <<"idiv">> /\ other.cx /\ ZeroDivisor
    /\ res.raised = "Cannot divide by zero"

(***************************************************************************)
(* C1: when num_bisection has used up its iteration budget without an      *)
(* exact zero and without the half-bracket width within 1e-6, the call     *)
(* raises and returns no value.                                            *)
(***************************************************************************)
HalfWidth == NumDiv(NumSub(b, a), PyFloat(2, 1))

\* the call is over, no end and no midpoint is a zero, the bracket is wide
BudgetExhausted ==
    /\ calls = <<"num_bisection">> /\ pc = "done"
    /\ ~IsZero(Apply(function, a)) /\ ~IsZero(Apply(function, b))
    /\ ~IsZero(Apply(function, c))
    /\ ~WithinTol(HalfWidth)

C1_ExhaustedBudgetRaises ==
    BudgetExhausted => (res.raised # "" /\ res.value = None)

(***************************************************************************)
(* C7: if function(a) and function(b) have opposite signs and the budget   *)
(* lets the loop reach the tolerance test with a half-bracket width of at  *)
(* most 1e-6 (iterations >= 2 and |b - a| / 2^iterations <= 1e-6), then    *)
(* num_bisection returns a value v that is an exact zero of the function   *)
(* or lies within 1e-6 of both ends of a bracket inside the given one at   *)
(* whose ends the function has strictly opposite signs.                    *)
(***************************************************************************)
SignAt(f, x) == Sign(Apply(f, x))

OppositeSignsAtStart ==
    SignAt(args.function, args.a) * SignAt(args.function, args.b) < 0

BudgetSuffices ==
    /\ Abs(args.iterations) >= 2
    /\ LET w == NumSub(args.b, args.a)
           width == IF Sign(w) < 0 THEN NumNeg(w) ELSE w
       IN  NumLe(width, NumMul(tol, PyInt(2 ^ Abs(args.iterations))))

C9_NewtonZeroDerivativeRaises ==
    [][ (calls = <<"num_newton">> /\ pc = "loop" /\ i < iterations
            /\ ~IsZero(Apply(function, c)) /\ IsZero(Apply(derivative, c)))
        => (pc' = "done" /\ res'.raised = "ZeroDivisionError"
            /\ res'.value = None /\ c' = c /\ i' = i) ]_vars

\* the derivative vanished at an iterate reached by an update
C9_Witness ==
    /\ calls = <<"num_newton">> /\ pc = "done" /\ i >= 1 /\ c # args.guess
    /\ res.raised = "ZeroDivisionError"
    /\ ~IsZero(Apply(function, c)) /\ IsZero(Apply(derivative, c))

(***************************************************************************)
(* C10: in num_secant, a pass of the loop that finds the guesses more      *)
(* than 1e-6 apart, function(guess1) # 0, function(guess2) # 0 and         *)
(* function(guess1) = function(guess2) ends the call with the division     *)
(* error and no value is returned.                                         *)
(***************************************************************************)
C10_SecantEqualValuesRaises ==
    [][ (calls = <<"num_secant">> /\ pc = "loop" /\ i < iterations
            /\ ~WithinTol(NumSub(guess1, guess2))
            /\ ~IsZero(Apply(function, guess1))
            /\ ~IsZero(Apply(function, guess2))
            /\ NumEq(Apply(function, guess1), Apply(function, guess2)))
        => (pc' = "done" /\ res'.raised = "ZeroDivisionError"
            /\ res'.value = None) ]_vars

\* the two function values met after at least one update of the guesses
C10_Witness ==
    /\ calls = <<"num_secant">> /\ pc = "done" /\ i >= 1
    /\ res.raised = "ZeroDivisionError"
    /\ ~WithinTol(NumSub(guess1, guess2))
    /\ NumEq(Apply(function, guess1), Apply(function, guess2))

(***************************************************************************)
(* Sums of products of samples, real or complex, as the convolution        *)
(* formula states them                                                     *)
(***************************************************************************)
SampleAdd(u, v) ==
    [cx |-> u.cx \/ v.cx, re |-> NumAdd(u.re, v.re), im |-> NumAdd(u.im, v.im)]
SampleMul(u, v) ==
    [cx |-> u.cx \/ v.cx,
     re |-> NumSub(NumMul(u.re, v.re), NumMul(u.im, v.im)),
     im |-> NumAdd(NumMul(u.re, v.im), NumMul(u.im, v.re))]

\* the sum of f[ix-j]*g[j] over the 0-based j in 0 .. m with j <= ix
RECURSIVE CausalSum(_, _, _, _)
CausalSum(f, g, ix, m) ==
    IF m < 0 THEN Number(PyInt(0))
    ELSE IF m > ix THEN CausalSum(f, g, ix, m - 1)
    ELSE SampleAdd(CausalSum(f, g, ix, m - 1), SampleMul(f[ix - m + 1], g[m + 1]))

ConvolveDone == calls = <<"disc_convolve">> /\ pc = "done"

HasComplexSample ==
    \/ \E k \in 1..Len(args.f) : args.f[k].cx
    \/ \E k \in 1..Len(args.g) : args.g[k].cx

(***************************************************************************)
(* C11: for all sequences f and g and every index i in [0, len(f)), entry  *)
(* i of disc_convolve(f, g) is the sum of f[i-j]*g[j] over the j with      *)
(* 0 <= j < len(g) and j <= i.                                             *)
(***************************************************************************)
C11_CausalConvolution ==
    ConvolveDone =>
        /\ res.raised = ""
        /\ \A k \in 1..Len(args.f) :
              ValEq(res.value[k], CausalSum(args.f, args.g, k - 1, Len(args.g) - 1))

(***************************************************************************)
(* C12: for all sequences f and g, disc_convolve(f, g) returns a list of   *)
(* exactly len(f) entries.                                                 *)
(***************************************************************************)
C12_ConvolutionLength ==
    ConvolveDone => (res.raised = "" /\ Len(res.value) = Len(args.f))

(***************************************************************************)
(* C13: for every sequence f, disc_convolve(f, [1, 0, 0, ...]) with the    *)
(* impulse of the length of f returns f, entry by entry.                   *)
(***************************************************************************)
C13_ConvolutionIdentity ==
    (ConvolveDone
        /\ args.g = Impulse(Len(args.f), 1, Number(PyInt(1)), Number(PyInt(0))))
    => (res.raised = "" /\ SeqValEq(res.value, args.f))

(***************************************************************************)
(* C14: when f or g holds complex2 samples, disc_convolve(f, g) does not   *)
(* fail; it returns the convolution computed with complex arithmetic.      *)
(***************************************************************************)
C14_ComplexSamplesAccepted ==
    (ConvolveDone /\ HasComplexSample)
    => /\ res.raised = ""
       /\ Len(res.value) = Len(args.f)
       /\ \A k \in 1..Len(args.f) :
             /\ ValEq(res.value[k],
                      CausalSum(args.f, args.g, k - 1, Len(args.g) - 1))
             /\ res.value[k].cx =
                   CausalSum(args.f, args.g, k - 1, Len(args.g) - 1).cx

(***************************************************************************)
(* C19: num_bisection and num_linear order their bracket before use, so    *)
(* for every function, bracket and iteration count the call with (a, b)    *)
(* and the call with (b, a) end alike: the same value, or the same error.  *)
(***************************************************************************)
SameOutcome(r1, r2) ==
    /\ r1.raised = r2.raised
    /\ r1.raised = "" =>
          IF r1.value = None \/ r2.value = None THEN r1.value = r2.value
          ELSE NumEq(r1.value, r2.value)

C19_BracketOrderIrrelevant ==
    /\ (pc = "done" /\ calls = <<"num_bisection">>) =>
          SameOutcome(res, num_bisection(args.function, args.b, args.a,
                                         args.iterations))
    /\ (pc = "done" /\ calls = <<"num_linear">>) =>
          SameOutcome(res, num_linear(args.function, args.b, args.a,
                                      args.iterations))

\* a call given its bracket in descending order ended after an update of
\* the bracket
C19_Witness ==
    /\ pc = "done" /\ calls \in { <<"num_bisection">>, <<"num_linear">> }
    /\ NumLt(args.b, args.a)
    /\ i >= 1 /\ res.raised = "" /\ res.value # None

(***************************************************************************)
(* C20: each pass of num_linear computes c = a - (b-a)/(fn(b)/fn(a) - 1),  *)
(* returns c at once if fn(c) = 0, and otherwise replaces a by c when      *)
(* fn(c)*fn(a) > 0 and b by c when not; no tolerance ends the loop, so     *)
(* without an exact zero the call makes `iterations` passes and returns    *)
(* the c of the last one.                                                  *)
(***************************************************************************)
\* x/y as a real number, whatever the Python types of x and y
Quotient(x, y) == NumMul(x, NumInv(y))

PointDefined(f, lo, hi) ==
    ~IsZero(Apply(f, lo)) /\ ~NumEq(Apply(f, hi), Apply(f, lo))

InterpolationPoint(f, lo, hi) ==
    NumSub(lo, Quotient(NumSub(hi, lo),
                        NumSub(Quotient(Apply(f, hi), Apply(f, lo)), PyInt(1))))

C20_LinearInterpolationSteps ==
    [][ (calls = <<"num_linear">> /\ pc = "linear") =>
        IF i < iterations
        THEN PointDefined(function, a, b) =>
               /\ res'.raised = ""
               /\ NumEq(c', InterpolationPoint(function, a, b))
               /\ IF IsZero(Apply(function, InterpolationPoint(function, a, b)))
                  THEN pc' = "done" /\ res'.value = c'
                  ELSE /\ pc' = "linear" /\ i' = i + 1
                       /\ IF Sign(NumMul(Apply(function, InterpolationPoint(function, a, b)),
                                         Apply(function, a))) > 0
                          THEN a' = c' /\ b' = b
                          ELSE a' = a /\ b' = c'
        ELSE iterations >= 1 =>
               (pc' = "done" /\ res'.raised = "" /\ res'.value = c
                   /\ i = iterations) ]_vars

(***************************************************************************)
(* C17: dfft on the empty list fails with the ValueError that every other  *)
(* length that is not a power of two gets, and with no other error.        *)
(***************************************************************************)
C17_EmptyInputInvalidLength ==
    (sig = << >> /\ calls \in { <<"dfft">>, <<"dfft_inverse">> })
    => res.raised = "ValueError"

(***************************************************************************)
(* C18: in a top-level call dfft(x) on a list of power-of-two length N the *)
(* division by sqrt(N) happens once, at s = 1, on the full length: every   *)
(* recursive call is entered with a scale parameter 2*s >= 2 (s doubles    *)
(* as the length halves) and returns the unscaled sums of its list; a      *)
(* list of length 1 comes back as its one sample, complex-cast, unscaled.  *)
(***************************************************************************)
\* the list of the sums over n of x[n]*exp2(-2*pi*i*n*k/N), k = 0 .. N-1
UnscaledSums(x) == [k \in 1..Len(x) |-> DirectSum(x, -1, k - 1, Len(x))]

TopLevelForward == calls = <<"dfft">> /\ IsPowerOfTwo(Len(sig))

C18_ScaledOnceAtTop ==
    TopLevelForward =>
        /\ res.raised = ""
        /\ Cardinality({ n \in 1..Len(dfft_levels(sig, 1)) :
                            dfft_levels(sig, 1)[n].s = 1 }) = 1
        /\ \A n \in 1..Len(dfft_levels(sig, 1)) :
              /\ dfft_levels(sig, 1)[n].s * Len(dfft_levels(sig, 1)[n].x) = Len(sig)
              /\ n > 1 =>
                    /\ dfft_levels(sig, 1)[n].s >= 2
                    /\ SeqValEq(dfft(dfft_levels(sig, 1)[n].x,
                                     dfft_levels(sig, 1)[n].s, FALSE).value,
                                UnscaledSums(dfft_levels(sig, 1)[n].x))
        /\ \A k \in 1..Len(sig) :
              ValEq(res.value[k],
                    complex2_div(UnscaledSums(sig)[k], Number(SqrtInt(Len(sig)))).value)
        /\ Len(sig) = 1 => (res.value[1].cx /\ ValEq(res.value[1], sig[1]))

\* a transform of eight samples, not all zero: calls at s = 1, 2, 4 and 8
C18_Witness ==
    /\ TopLevelForward /\ Len(sig) = 8 /\ res.raised = ""
    /\ Len(dfft_levels(sig, 1)) = 15
    /\ \E k \in 1..8 : ~IsZero(res.value[k].im)

(***************************************************************************)
(* C15: one call of runge_kutta4(y, f, t, dt) returns                      *)
(* y + (dt/6)*(k1 + 2*k2 + 2*k3 + k4) with k1 = f(t, y),                   *)
(* k2 = f(t + dt/2, y + k1*dt/2), k3 = f(t + dt/2, y + k2*dt/2),           *)
(* k4 = f(t + dt, y + dt*k3), where dt/2 and dt/6 are the exact half and   *)
(* sixth also for a whole-number dt; for a constant derivative c the       *)
(* result is y + c*dt.                                                     *)
(***************************************************************************)
\* x/n as a real number, whatever the Python types of x and n
Fraction(x, n) == NumMul(x, PyFloat(1, n))

SlopeMid(y, f, t, dt, k) ==
    ApplyDerivative(f, NumAdd(t, Fraction(dt, 2)),
                       NumAdd(y, Fraction(NumMul(k, dt), 2)))
SlopeEnd(y, f, t, dt, k) ==
    ApplyDerivative(f, NumAdd(t, dt), NumAdd(y, NumMul(dt, k)))
WeightedStep(y, dt, k1, k2, k3, k4) ==
    NumAdd(y, NumMul(Fraction(dt, 6),
                     NumAdd(NumAdd(NumAdd(k1, NumMul(PyInt(2), k2)),
                                   NumMul(PyInt(2), k3)), k4)))
StepFromK3(y, f, t, dt, k1, k2, k3) ==
    WeightedStep(y, dt, k1, k2, k3, SlopeEnd(y, f, t, dt, k3))
StepFromK2(y, f, t, dt, k1, k2) ==
    StepFromK3(y, f, t, dt, k1, k2, SlopeMid(y, f, t, dt, k2))
StepFromK1(y, f, t, dt, k1) ==
    StepFromK2(y, f, t, dt, k1, SlopeMid(y, f, t, dt, k1))
ClassicalStep(y, f, t, dt) == StepFromK1(y, f, t, dt, ApplyDerivative(f, t, y))

StepperDone == calls = <<"runge_kutta4">> /\ pc = "done" /\ "dt" \in DOMAIN args

C15_ClassicalStep ==
    StepperDone =>
        /\ res.raised = ""
        /\ NumEq(res.value, ClassicalStep(args.y, args.f, args.t, args.dt))
        /\ args.f.kind = "const" =>
              NumEq(res.value, NumAdd(args.y, NumMul(args.f.value, args.dt)))

(***************************************************************************)
(* C16: from y(0) = 1, 100 calls of runge_kutta4 with dt = 0.01 on         *)
(* dy/dt = -y leave y within 1e-3 of e^-1.  e^-1 = 0.36787944117... lies   *)
(* between 36787944 and 36787945 units of 1e-8, and 1e-3 is 100000 units.  *)
(***************************************************************************)
DecayRun ==
    pc = "integrate" /\ args.y = <<Unit, Unit>> /\ args.n = 100 /\ i = 100

C16_DecayAccuracy ==
    DecayRun =>
        /\ res.raised = ""
        /\ res.value[1] <= res.value[2]
        /\ res.value[1] >= 36787945 - 100000
        /\ res.value[2] <= 36787944 + 100000

C16_Witness == DecayRun /\ calls = <<"runge_kutta4">> /\ res.value # args.y


(***************************************************************************)
(* C21: each pass of num_newton tests fn(c) = 0 first and, when it holds,  *)
(* returns c at once, whatever the derivative is at c; otherwise the pass  *)
(* replaces c by c - fn(c)/dfn(c).  When `iterations` passes were made     *)
(* the last c is returned, which is the initial guess for a count of 0.    *)
(***************************************************************************)
NewtonStep(fc, dc, x) == NumSub(x, Quotient(fc, dc))

C21_NewtonSteps ==
    [][ (calls = <<"num_newton">> /\ pc = "loop") =>
        IF i < iterations
        THEN IF IsZero(Apply(function, c))
             THEN pc' = "done" /\ res' = Return(c)
             ELSE ~IsZero(Apply(derivative, c)) =>
                    /\ pc' = "loop" /\ i' = i + 1
                    /\ NumEq(c', NewtonStep(Apply(function, c),
                                            Apply(derivative, c), c))
        ELSE /\ pc' = "done" /\ res' = Return(c) /\ i = iterations
             /\ iterations = 0 => c = args.guess ]_vars


(***************************************************************************)
(* C22: each pass of num_secant returns guess1 early if f(guess1) = 0 or   *)
(* the guesses are within 1e-6, and otherwise sets                         *)
(* c = g1 - f(g1)*(g1-g2)/(f(g1)-f(g2)) and shifts (g1, g2) <- (c, g1);    *)
(* after `iterations` passes the current guess1 is returned.  As stated:   *)
(* every value returned is the current guess1.  As amended: a pass on      *)
(* which neither test for guess1 holds and f(guess2) = 0 returns guess2,   *)
(* and the division of the update is the program's, which floors when      *)
(* both operands are ints.                                                 *)
(***************************************************************************)
SecantPoint(f, g1, g2) ==
    NumSub(g1, Quotient(NumMul(Apply(f, g1), NumSub(g1, g2)),
                        NumSub(Apply(f, g1), Apply(f, g2))))

Guess1Exit == IsZero(Apply(function, guess1)) \/ WithinTol(NumSub(guess1, guess2))

ProgramSecantPoint(f, g1, g2) ==
    NumSub(g1, NumDiv(NumMul(Apply(f, g1), NumSub(g1, g2)),
                      NumSub(Apply(f, g1), Apply(f, g2))))

InIndexRange(values, k) == -Len(values) <= k /\ k < Len(values)
\* values[k]
Item(values, k) == values[(k % Len(values)) + 1]

\* line 891, range(len(values)-1)
diff_range(N) == 0 .. (N - 2)
\* lines 892-893: the items one pass reads
diff_reads(ix) == {ix, ix + 1}

\* lines 894-895 for x1, y1 = p1 and x2, y2 = p2
diff_pair(p1, p2) ==
    IF ~NumEq(p2[1], p1[1])
    THEN << <<p1[1], NumDiv(NumSub(p2[2], p1[2]), NumSub(p2[1], p1[1]))>> >>
    ELSE <<>>

\* lines 891-895: the passes ix, ix + 1, ... of the loop
RECURSIVE diff_loop(_, _)
diff_loop(values, ix) ==
    IF ix \notin diff_range(Len(values)) THEN <<>>
    ELSE diff_pair(Item(values, ix), Item(values, ix + 1))
            \o diff_loop(values, ix + 1)

diff(values) ==
    IF \E ix \in diff_range(Len(values)) :
          \E k \in diff_reads(ix) : ~InIndexRange(values, k)
    THEN Raise("IndexError")
    ELSE Return(diff_loop(values, 0))

\* line 902, range(2, len(values)-2)
diff_5_range(N) == 2 .. (N - 3)

\* lines 903-909: the items one pass reads
diff_5_reads(ix) == {ix - 2, ix - 1, ix, ix + 1, ix + 2}

\* line 903
diff_5_h(values, ix) == NumSub(Item(values, ix + 1)[1], Item(values, ix)[1])

\* line 909, -y2 + 8*y1 - 8*y_1 + y_2
diff_5_numerator(y_2, y_1, y1, y2) ==
    NumAdd(NumSub(NumAdd(NumNeg(y2), NumMul(PyInt(8), y1)),
                  NumMul(PyInt(8), y_1)), y_2)

\* lines 908-909
diff_5_pair(values, ix, h) ==
    IF ~IsZero(h)
    THEN << <<Item(values, ix)[1],
              NumDiv(diff_5_numerator(Item(values, ix - 2)[2],
                                      Item(values, ix - 1)[2],
                                      Item(values, ix + 1)[2],
                                      Item(values, ix + 2)[2]),
                     NumMul(PyInt(12), h))>> >>
    ELSE <<>>

\* lines 902-909: the passes of the loop among ix, ix + 1, ...
RECURSIVE diff_5_loop(_, _)
diff_5_loop(values, ix) ==
    IF ix >= Len(values) THEN <<>>
    ELSE (IF ix \in diff_5_range(Len(values))
          THEN diff_5_pair(values, ix, diff_5_h(values, ix))
          ELSE <<>>)
            \o diff_5_loop(values, ix + 1)

diff_5(values) ==
    IF \E ix \in diff_5_range(Len(values)) :
          \E k \in diff_5_reads(ix) : ~InIndexRange(values, k)
    THEN Raise("IndexError")
    ELSE Return(diff_5_loop(values, 0))

Call_diff ==
    /\ pc = "call"
    /\ "values" \in DOMAIN args
    /\ res' = diff(args.values)
    /\ calls' = <<"diff">>
    /\ pc' = "done"
    /\ UNCHANGED <<sig, complexVars, args, function, derivative, a, b, c,
                   guess1, guess2, i, iterations>>

Call_diff_5 ==
    /\ pc = "call"
    /\ "values" \in DOMAIN args
    /\ res' = diff_5(args.values)
    /\ calls' = <<"diff_5">>
    /\ pc' = "done"
    /\ UNCHANGED <<sig, complexVars, args, function, derivative, a, b, c,
                   guess1, guess2, i, iterations>>

MaxDiffLen == 6    \* sample lists of 0 .. MaxDiffLen pairs

\* c0 + c1*x + ... + c5*x^5 for p = <<c0, ..., c5>>
PolyAt(p, x) ==
    NumAdd(p[1], NumMul(x, NumAdd(p[2], NumMul(x, NumAdd(p[3], NumMul(x,
        NumAdd(p[4], NumMul(x, NumAdd(p[5], NumMul(x, p[6]))))))))))

Coefficients(c0, c1, c2, c3, c4, c5) ==
    <<PyFloat(c0, 2), PyFloat(c1, 2), PyFloat(c2, 2), PyFloat(c3, 2),
      PyFloat(c4, 2), PyFloat(c5, 2)>>

\* 1 - x, x*x, x*(x+1)/2, x^3 - x, x^4, and x^5, in halves
DiffPolynomials ==
    { Coefficients(2, -2, 0, 0, 0, 0), Coefficients(0, 0, 2, 0, 0, 0),
      Coefficients(0, 1, 1, 0, 0, 0),  Coefficients(0, -2, 0, 2, 0, 0),
      Coefficients(0, 0, 0, 0, 2, 0),  Coefficients(0, 0, 0, 0, 0, 2) }

RECURSIVE StepSum(_, _)
StepSum(steps, k) == IF k = 0 THEN 0 ELSE steps[k] + StepSum(steps, k - 1)

\* the number v as an int (kind 0) or as a float (kind 1)
Typed(v, kind) == <<v[1], v[2], v[3], v[4], v[5], kind>>

\* the samples of p at x0 + h * (steps[1] + ... + steps[k]), k = 0 .. N-1
GridPoint(x0, h, steps, k) == NumAdd(PyInt(x0), NumMul(h, PyInt(StepSum(steps, k))))
SampleList(p, x0, h, steps, N, kind) ==
    [ k \in 1..N |->
        <<Typed(GridPoint(x0, h, steps, k - 1), kind),
          Typed(PolyAt(p, GridPoint(x0, h, steps, k - 1)), kind)>> ]

\* an int sample list holds whole numbers only
WellTyped(values) ==
    \A k \in 1..Len(values) :
        IsInt(values[k][1]) => (values[k][1][5] = 1 /\ values[k][2][5] = 1)

InitDiff ==
    /\ \E N \in 0..MaxDiffLen, p \in DiffPolynomials, x0 \in {-1, 0},
          h \in {PyInt(1), PyFloat(1, 2)}, kind \in {0, 1} :
          \E steps \in [1..(IF N = 0 THEN 0 ELSE N - 1) -> 0..2] :
              /\ args = [values |-> SampleList(p, x0, h, steps, N, kind)]
              /\ WellTyped(args.values)
    /\ pc = "call"
    /\ function = None /\ derivative = None
    /\ a = None /\ b = None /\ c = None /\ guess1 = None /\ guess2 = None
    /\ i = 0 /\ iterations = 0
    /\ calls = <<>>
    /\ res = Return(None)
    /\ IdleTransform /\ IdleComplex

NextDiff ==
    \/ Call_diff
    \/ Call_diff_5

SpecDiff == InitDiff /\ [][NextDiff]_vars


(***************************************************************************)
(* C23: for a sample list of length N, diff returns, in index order, the   *)
(* pair (x[i], (y[i+1]-y[i])/(x[i+1]-x[i])) of exactly the i in [0, N-1)   *)
(* with x[i+1] # x[i]; pairs of equal x are skipped without an error, so   *)
(* the result has N-1 items less one per adjacent pair of equal x, and no  *)
(* item for N <= 1.                                                        *)
(***************************************************************************)
SampleX(values, ix) == values[ix + 1][1]
SampleY(values, ix) == values[ix + 1][2]

AdjacentPairs(values) == { ix \in 0..(Len(values) - 2) : TRUE }
EqualXPairs(values) ==
    { ix \in AdjacentPairs(values) :
        NumEq(SampleX(values, ix + 1), SampleX(values, ix)) }
DistinctXPairs(values) == AdjacentPairs(values) \ EqualXPairs(values)

\* the place in the result of the pair emitted for index ix
PlaceAmong(kept, ix) == Cardinality({ k \in kept : k <= ix })

DividedDifference(values, ix) ==
    Quotient(NumSub(SampleY(values, ix + 1), SampleY(values, ix)),
             NumSub(SampleX(values, ix + 1), SampleX(values, ix)))

C23_ForwardDifferences ==
    (calls = <<"diff">> /\ pc = "done") =>
        /\ res.raised = ""
        /\ Len(res.value) =
             (IF Len(args.values) <= 1 THEN 0
              ELSE Len(args.values) - 1 - Cardinality(EqualXPairs(args.values)))
        /\ \A ix \in DistinctXPairs(args.values) :
             /\ PlaceAmong(DistinctXPairs(args.values), ix) \in 1..Len(res.value)
             /\ NumEq(res.value[PlaceAmong(DistinctXPairs(args.values), ix)][1],
                      SampleX(args.values, ix))
             /\ NumEq(res.value[PlaceAmong(DistinctXPairs(args.values), ix)][2],
                      DividedDifference(args.values, ix))


(***************************************************************************)
(* C24: for a sample list of length N, diff_5 works on the interior        *)
(* indices i in [2, N-2) only: for each of them with h = x[i+1]-x[i] # 0   *)
(* it emits (x[i], (-y[i+2] + 8*y[i+1] - 8*y[i-1] + y[i-2])/(12*h)), in    *)
(* index order and nothing else; no index outside [0, N) is read, and the  *)
(* result is empty for N < 5.                                              *)
(***************************************************************************)
Interior(values) == { ix \in 2..(Len(values) - 3) : TRUE }
Spacing(values, ix) == NumSub(SampleX(values, ix + 1), SampleX(values, ix))
InteriorKept(values) ==
    { ix \in Interior(values) : ~IsZero(Spacing(values, ix)) }

FivePoint(values, ix) ==
    Quotient(NumAdd(NumSub(NumSub(NumMul(PyInt(8), SampleY(values, ix + 1)),
                                  SampleY(values, ix + 2)),
                           NumMul(PyInt(8), SampleY(values, ix - 1))),
                    SampleY(values, ix - 2)),
             NumMul(PyInt(12), Spacing(values, ix)))

Diff5Done == calls = <<"diff_5">> /\ pc = "done"

\* which pairs come back, and from which items
Diff5Shape ==
    /\ res.raised = ""
    /\ \A ix \in diff_5_range(Len(args.values)) :
          \A k \in diff_5_reads(ix) : 0 <= k /\ k < Len(args.values)
    /\ Len(res.value) = Cardinality(InteriorKept(args.values))
    /\ Len(args.values) < 5 => res.value = <<>>
    /\ \A ix \in InteriorKept(args.values) :
          /\ PlaceAmong(InteriorKept(args.values), ix) \in 1..Len(res.value)
          /\ NumEq(res.value[PlaceAmong(InteriorKept(args.values), ix)][1],
                   SampleX(args.values, ix))

C24_FivePointInterior ==
    Diff5Done =>
        /\ Diff5Shape
        /\ \A ix \in InteriorKept(args.values) :
              NumEq(res.value[PlaceAmong(InteriorKept(args.values), ix)][2],
                    FivePoint(args.values, ix))


(***************************************************************************)
(* The four root finders and dfft side by side: a call of one of them on   *)
(* its own arguments (both bracketing finders take the same arguments).    *)
(***************************************************************************)
InitKernel == InitBracket \/ InitNewton \/ InitSecant \/ InitTransform

NextKernel ==
    \/ pc = "call" /\ "a" \in DOMAIN args /\ num_bisection_begin
    \/ pc = "call" /\ "a" \in DOMAIN args /\ num_linear_begin
    \/ pc = "call" /\ "guess" \in DOMAIN args /\ num_newton_begin
    \/ pc = "call" /\ "guess1" \in DOMAIN args /\ num_secant_begin
    \/ calls = <<"num_bisection">> /\ num_bisection_iterate
    \/ calls = <<"num_bisection">> /\ num_bisection_exhausted
    \/ calls = <<"num_linear">> /\ num_linear_iterate
    \/ calls = <<"num_linear">> /\ num_linear_return
    \/ calls = <<"num_newton">> /\ num_newton_iterate
    \/ calls = <<"num_newton">> /\ num_newton_return
    \/ calls = <<"num_secant">> /\ num_secant_iterate
    \/ calls = <<"num_secant">> /\ num_secant_return
    \/ pc = "idle" /\ calls = <<>> /\ Call_dfft
    \/ pc = "idle" /\ calls = <<>> /\ Call_dfft_inverse

SpecKernel == InitKernel /\ [][NextKernel]_vars

(***************************************************************************)
(* C25: every call ends within a bound fixed by its arguments, whatever    *)
(* the callable returns.  As stated: num_bisection, num_linear, num_newton *)
(* and num_secant make at most `iterations` passes of their loop, and      *)
(* num_bisection tries at most `iterations` midpoints; dfft on a list of   *)
(* N = 2^e samples recurses to depth exactly e.  As amended: the bound is  *)
(* |iterations| for num_bisection and num_linear, and num_bisection tries  *)
(* at most max(1, |iterations|) midpoints, the first one before its loop.  *)
(***************************************************************************)
InLoop == pc \in {"loop", "linear"}
RootFinderRuns ==
    calls # <<>> /\ calls[1] \in {"num_bisection", "num_linear", "num_newton", "num_secant"}

\* passes the loop may make when the count n bounds the passes (midpoints,
\* for num_bisection, whose first midpoint is tried before the loop)
PassesWithin(n) == IF calls[1] = "num_bisection" THEN n - 1 ELSE n

\* the loop has made i passes; a further one is made only below the bound,
\* and it ends the call or moves on to pass i + 1
BoundedPasses(bound) ==
    IF i < bound
    THEN (pc' = pc /\ i' = i + 1) \/ (pc' = "done" /\ i' = i)
    ELSE pc' = "done" /\ UNCHANGED <<a, b, c, guess1, guess2, i>>

\* every level of the recursion halves the list: the call at depth d has
\* s = 2^d, and the deepest calls are those on single samples
RecursionDepthIsLog2 ==
    /\ \A n \in 1..Len(dfft_levels(sig, 1)) :
          dfft_levels(sig, 1)[n].s * Len(dfft_levels(sig, 1)[n].x) = Len(sig)
    /\ \E n \in 1..Len(dfft_levels(sig, 1)) : dfft_levels(sig, 1)[n].s = Len(sig)

TransformRuns ==
    /\ Len(calls) = 1 /\ calls[1] \in {"dfft", "dfft_inverse"}
    /\ IsPowerOfTwo(Len(sig))

C25_BoundedByIterations ==
    /\ [](TransformRuns => (res.raised = "" /\ RecursionDepthIsLog2))
    /\ [](RootFinderRuns =>
            /\ i <= IF PassesWithin(args.iterations) < 0 THEN 0
                    ELSE PassesWithin(args.iterations)
            /\ calls[1] = "num_bisection" => 1 <= args.iterations)
    /\ [][ (RootFinderRuns /\ InLoop) =>
              BoundedPasses(PassesWithin(args.iterations)) ]_vars

C25_BoundedByAbsIterations ==
    /\ [](TransformRuns => (res.raised = "" /\ RecursionDepthIsLog2))
    /\ [](RootFinderRuns =>
            i <= IF PassesWithin(Abs(args.iterations)) < 0 THEN 0
                 ELSE PassesWithin(Abs(args.iterations)))
    /\ [][ (RootFinderRuns /\ InLoop) =>
              BoundedPasses(PassesWithin(Abs(args.iterations))) ]_vars

\* given a negative count, num_linear made as many passes as its absolute
\* value and returned the last point
C25_Witness ==
    /\ RootFinderRuns /\ calls[1] = "num_linear" /\ args.iterations < 0
    /\ pc = "done" /\ i = Abs(args.iterations) /\ res = Return(c)


(***************************************************************************)
(* Objects.  A complex2 is a mutable object: `r += v` on it (__iadd__)     *)
(* writes the fields of r, while r + v, r - v, r * v and r / v build a new *)
(* object.  The caller's list x holds the objects 1 .. len(x), whose       *)
(* fields are objs[1], ..., objs[len(x)].  An item is a reference: ref = k *)
(* for the caller's object k, ref = 0 for an object made during the call,  *)
(* whose fields are val.                                                   *)
(***************************************************************************)
CallerItems(objs) == [k \in 1..Len(objs) |-> [ref |-> k, val |-> objs[k]]]
NewObject(v) == [ref |-> 0, val |-> v]
ValueOf(objs, item) == IF item.ref > 0 THEN objs[item.ref] ELSE item.val

\* lines 574-582, acc += v: the write goes to the object acc refers to
object_iadd(objs, acc, v) ==
    IF acc.ref > 0
    THEN [objs |-> [objs EXCEPT ![acc.ref] = complex2_iadd(objs[acc.ref], v)],
          acc |-> acc]
    ELSE [objs |-> objs, acc |-> NewObject(complex2_iadd(acc.val, v))]

\* variant: the sum is accumulated in the first sample when it is a complex2
direct_accumulator_first_sample(objs, x) ==
    IF Len(x) > 0 /\ ValueOf(objs, x[1]).cx THEN x[1]
    ELSE NewObject(complex2(PyInt(0), PyInt(0)))

\* lines 751 and 769, result = complex2(0,0): a new object for every row
direct_accumulator(objs, x) == NewObject(complex2(PyInt(0), PyInt(0)))

\* lines 753 and 771, result += x[n]*exp2(...), for the 1-based position n
direct_add_term(st, x, sgn, k, n) ==
    object_iadd(st.objs, st.acc,
                Mul(ValueOf(st.objs, x[n]), DirectKernel(sgn, n - 1, k, Len(x))))

\* the inner loop up to the term n
RECURSIVE direct_row(_, _, _, _, _)
direct_row(st, x, sgn, k, n) ==
    IF n = 0 THEN st
    ELSE direct_add_term(direct_row(st, x, sgn, k, n - 1), x, sgn, k, n)

\* lines 756 and 773: result/math.sqrt(N), a new object, is appended
direct_close_row(st, out, N) ==
    [objs |-> st.objs,
     out  |-> Append(out, complex2_div(ValueOf(st.objs, st.acc),
                                       Number(SqrtInt(N))).value)]

direct_next_row(prev, x, sgn, k) ==
    direct_close_row(
        direct_row([objs |-> prev.objs, acc |-> direct_accumulator(prev.objs, x)],
                   x, sgn, k, Len(x)),
        prev.out, Len(x))

\* the outer loop up to row k: the caller's objects and the list built
RECURSIVE direct_rows(_, _, _, _)
direct_rows(objs, x, sgn, k) ==
    IF k = 0 THEN [objs |-> objs, out |-> <<>>]
    ELSE direct_next_row(direct_rows(objs, x, sgn, k - 1), x, sgn, k - 1)

disc_fourier_objects(objs)     == direct_rows(objs, CallerItems(objs), -1, Len(objs))
disc_inv_fourier_objects(objs) == direct_rows(objs, CallerItems(objs), 1, Len(objs))

\* lines 705-739 hold no in-place operator and no assignment to an item of
\* a list: every object dfft makes is new (inv*exp2(..)*odd[k], even[k] +
\* T[k], even[k] - T[k], x/math.sqrt(N)), and only the list of length 1
\* that holds a complex2 is handed back as it is
dfft_objects(objs, inverse) ==
    [objs |-> objs,
     out  |-> dfft(objs, 1, inverse),
     same |-> Len(objs) = 1 /\ objs[1].cx]

Object_disc_fourier ==
    /\ pc = "idle" /\ calls = <<>>
    /\ Representable(Len(sig)) /\ Len(sig) <= MaxLen
    /\ sig' = disc_fourier_objects(sig).objs
    /\ res' = Return(disc_fourier_objects(sig).out)
    /\ calls' = <<"disc_fourier">>
    /\ UNCHANGED <<complexVars, rootVars>>

Object_disc_inv_fourier ==
    /\ pc = "idle" /\ calls = <<>>
    /\ Representable(Len(sig)) /\ Len(sig) <= MaxLen
    /\ sig' = disc_inv_fourier_objects(sig).objs
    /\ res' = Return(disc_inv_fourier_objects(sig).out)
    /\ calls' = <<"disc_inv_fourier">>
    /\ UNCHANGED <<complexVars, rootVars>>

Object_dfft ==
    /\ pc = "idle" /\ calls = <<>>
    /\ \E inverse \in BOOLEAN :
          /\ sig' = dfft_objects(sig, inverse).objs
          /\ res' = dfft_objects(sig, inverse).out
          /\ calls' = <<IF inverse THEN "dfft_inverse" ELSE "dfft">>
    /\ UNCHANGED <<complexVars, rootVars>>

InitObjects == InitTransform \/ InitConvolve \/ InitDiff \/ InitStepper

NextObjects ==
    \/ Object_disc_fourier
    \/ Object_disc_inv_fourier
    \/ Object_dfft
    \/ Call_disc_convolve
    \/ Call_diff
    \/ Call_diff_5
    \/ Call_runge_kutta4

SpecObjects == InitObjects /\ [][NextObjects]_vars

(***************************************************************************)
(* C26: no call of disc_fourier, disc_inv_fourier, dfft, disc_convolve,    *)
(* diff, diff_5 or runge_kutta4 changes what the caller passed in: when    *)
(* the call has returned or raised, the list has the length it had and     *)
(* every sample or state value has the components it had, although the     *)
(* direct transforms add to their accumulators in place.                   *)
(***************************************************************************)
SameObjects(before, after) ==
    /\ Len(after) = Len(before)
    /\ \A k \in 1..Len(before) :
          /\ after[k].cx = before[k].cx
          /\ after[k].re = before[k].re
          /\ after[k].im = before[k].im

C26_InputsUntouched ==
    [][ (calls = <<>> /\ calls' # <<>>) =>
           /\ SameObjects(sig, sig')
           /\ args' = args ]_vars

\* a direct transform of four samples, the first one a complex2: its
\* accumulators were added to in place and are not 0
C26_Witness ==
    /\ calls = <<"disc_fourier">> /\ Len(sig) = 4 /\ sig[1].cx
    /\ res.raised = "" /\ \A k \in 1..4 : ~IsZero(res.value[k].im)


(***************************************************************************)
(* C27: in num_bisection, when fn(a) and fn(b) have strictly opposite      *)
(* signs at the start, every pass of the loop that does not return leaves  *)
(* a < b, fn(a) and fn(b) of strictly opposite signs, the new bracket      *)
(* inside the previous one, and b - a exactly half of what it was.         *)
(***************************************************************************)
C27_BisectionBracket ==
    [][ (calls = <<"num_bisection">> /\ pc = "loop" /\ pc' = "loop"
            /\ OppositeSignsAtStart) =>
           /\ NumLt(a', b')
           /\ SignAt(function, a') * SignAt(function, b') < 0
           /\ NumLe(a, a') /\ NumLe(b', b)
           /\ NumEq(NumMul(PyInt(2), NumSub(b', a')), NumSub(b, a)) ]_vars

\* num_bisection on brackets about 1 wide, which no budget of the model
\* narrows to the tolerance: every pass is followed by another one
WideEnds ==
    { PyInt(-1), PyInt(0), PyInt(1), PyInt(2), PyInt(3), PyFloat(1, 2), PyFloat(5, 2) }
WideFunctions ==
    { Polynomial(PyInt(-2), PyInt(0), PyInt(1)),
      Polynomial(PyFloat(-7, 3), PyInt(1), PyInt(0)),
      Polynomial(PyFloat(13, 10), PyInt(-1), PyInt(0)),
      Piecewise(PyFloat(4, 3), Const(PyInt(-1)), Const(PyInt(1))),
      Polynomial(PyInt(1), PyInt(0), PyInt(0)) }

InitWideBisection ==
    /\ args \in [function : WideFunctions, a : WideEnds, b : WideEnds,
                 iterations : (-1)..MaxIter]
    /\ pc = "call"
    /\ function = None /\ derivative = None
    /\ a = None /\ b = None /\ c = None /\ guess1 = None /\ guess2 = None
    /\ i = 0 /\ iterations = 0
    /\ calls = <<>>
    /\ res = Return(None)
    /\ IdleTransform /\ IdleComplex

SpecWideBisection == InitWideBisection /\ [][NextBisection]_vars

\* three passes went by without a return, and each end has moved
C27_Witness ==
    /\ calls = <<"num_bisection">> /\ pc = "loop" /\ i = 3
    /\ OppositeSignsAtStart
    /\ ~NumEq(a, args.a) /\ ~NumEq(b, args.b)
    /\ ~NumEq(a, args.b) /\ ~NumEq(b, args.a)


(***************************************************************************)
(* C28: in num_linear, when fn(a) and fn(b) have strictly opposite signs   *)
(* at the start, on every pass neither division of                         *)
(* c = a - (b-a)/(fn(b)/fn(a) - 1) is by zero, c lies strictly between the *)
(* current a and b, and the bracket the pass leaves has function values of *)
(* strictly opposite signs at its ends.                                    *)
(***************************************************************************)
C28_LinearBracket ==
    [][ (calls = <<"num_linear">> /\ pc = "linear" /\ i < iterations
            /\ OppositeSignsAtStart) =>
           /\ ~IsZero(Apply(function, a))
           /\ ~NumEq(Apply(function, b), Apply(function, a))
           /\ res'.raised = ""
           /\ NumLt(a, c') /\ NumLt(c', b)
           /\ SignAt(function, a') * SignAt(function, b') < 0 ]_vars


(***************************************************************************)
(* C29: when the samples are those of a polynomial of degree at most 4 at  *)
(* uniformly spaced x, every pair (x[i], d) that diff_5 emits has d equal  *)
(* to the derivative of the polynomial at x[i].                            *)
(***************************************************************************)
\* c1 + 2*c2*x + 3*c3*x^2 + 4*c4*x^3 + 5*c5*x^4 for p = <<c0, ..., c5>>
DerivativeAt(p, x) ==
    NumAdd(p[2], NumMul(x, NumAdd(NumMul(PyInt(2), p[3]), NumMul(x,
        NumAdd(NumMul(PyInt(3), p[4]), NumMul(x,
            NumAdd(NumMul(PyInt(4), p[5]), NumMul(x, NumMul(PyInt(5), p[6])))))))))

Quartics == { p \in DiffPolynomials : IsZero(p[6]) }

SamplesOf(p, values) ==
    \A k \in 0..(Len(values) - 1) :
        NumEq(SampleY(values, k), PolyAt(p, SampleX(values, k)))

UniformlySpaced(values) ==
    \A k \in 0..(Len(values) - 2) :
        /\ ~IsZero(Spacing(values, k))
        /\ NumEq(Spacing(values, k), Spacing(values, 0))

C29_ExactOnQuartics ==
    (Diff5Done /\ UniformlySpaced(args.values)) =>
        \A p \in Quartics :
            SamplesOf(p, args.values) =>
                /\ res.raised = ""
                /\ Len(res.value) = Cardinality(Interior(args.values))
                /\ \A n \in 1..Len(res.value) :
                      NumEq(res.value[n][2], DerivativeAt(p, res.value[n][1]))

(***************************************************************************)
(* complex2 product then quotient: p = z * w, then q = p / w               *)
(***************************************************************************)
\* p = z * w
Call_mul ==
    /\ calls = <<>>
    /\ res' = Return(complex2_mul(self, other))
    /\ calls' = <<"mul">>
    /\ UNCHANGED <<sig, complexVars, rootVars>>

\* q = p / w, with p the product just returned
Call_div_product ==
    /\ calls = <<"mul">>
    /\ res' = complex2_div(res.value, other)
    /\ calls' = <<"mul", "div">>
    /\ UNCHANGED <<sig, complexVars, rootVars>>

NextProduct == Call_mul \/ Call_div_product

SpecProduct == InitComplex /\ [][NextProduct]_vars

WholeComponents(z) == IsInt(z.re) /\ IsInt(z.im)

(***************************************************************************)
(* C30: division undoes multiplication.  For every complex2 z and every    *)
(* complex2 w of non-zero magnitude, (z * w) / w is returned, not raised,  *)
(* and has the real and the imaginary component of z, also when all four   *)
(* components are ints.                                                    *)
(***************************************************************************)
C30_DivisionUndoesProduct ==
    (calls = <<"mul", "div">> /\ other.cx /\ ~complex2_mag_is_zero(other)) =>
        /\ res.raised = ""
        /\ res.value.cx
        /\ NumEq(res.value.re, self.re)
        /\ NumEq(res.value.im, self.im)

\* ints throughout, a divisor with both components non-zero, z likewise
C30_Witness ==
    /\ calls = <<"mul", "div">>
    /\ other.cx
    /\ WholeComponents(self) /\ WholeComponents(other)
    /\ self.re = PyInt(1) /\ self.im = PyInt(2)
    /\ other.re = PyInt(2) /\ other.im = PyInt(-1)
    /\ res = Return(complex2(PyInt(1), PyInt(2)))

====
